---- MODULE Spec2Model ----
(***************************************************************************)
(* Galatea: Task / Stack lifecycle engine.                                 *)
(*                                                                         *)
(* State: the loaded Task collection (Vec<Task>), the loaded Stack         *)
(* collection (Vec<Stack>), the state directory (<state_dir>/<name>.state) *)
(* and the tasks directory (<tasks_dir>/<name>).  Operations: the Task and *)
(* Stack lifecycle methods of task.rs / stack.rs, driven by the button     *)
(* handlers of ui/task_view.rs and ui/stack_view.rs.                       *)
(*                                                                         *)
(* Outside the model: failures of the state-file I/O itself (read, write,  *)
(* remove) and changes made to the directories by other programs.          *)
(***************************************************************************)
EXTENDS Integers, Sequences, FiniteSets, TLC

\* ---------------------------------------------------------------- bounds
MaxTasks == 2
MaxStacks == 1
MaxStackLen == 2

\* ------------------------------------------------------------ input sets
\* Names that task definitions carry.  load_tasks keeps every parsed entry,
\* so one name may occur more than once in the collection.
TaskNameSet == {"A", "B"}

\* A name that a stack may reference although no task definition has it.
MissingName == "M"

StackRefSet == TaskNameSet \cup {MissingName}

ScriptType == {"Bash", "Ansible", "Mixed"}

\* Content of a state file; Absent stands for "no such file".
Absent == "<absent>"

FileContents == {"installed", "installed\n", "removed"}

FileStates == FileContents \cup {Absent}

\* str::trim on the contents above.
Trim(content) ==
    IF content = "installed\n" THEN "installed" ELSE content

\* Outcome of the external collaborators during one Task method call:
\* fetch = the HTTP download and extraction, ansible / bash = exit status 0
\* of ansible-playbook / of the script, command = exit status 0 of the
\* literal cleanup command.  One call consults the fetch and then either the
\* command, or one runner, or (Mixed) ansible and then bash, so the outcomes
\* below produce every behaviour a call can have.
AllEnvs == [fetch : BOOLEAN, ansible : BOOLEAN, bash : BOOLEAN, command : BOOLEAN]

Envs ==
    {e \in AllEnvs :
        \/ e.fetch /\ e.ansible /\ e.bash /\ e.command
        \/ ~e.fetch /\ e.ansible /\ e.bash /\ e.command
        \/ e.fetch /\ ~e.ansible /\ e.bash /\ e.command
        \/ e.fetch /\ e.ansible /\ ~e.bash /\ e.command
        \/ e.fetch /\ ~e.ansible /\ ~e.bash /\ e.command
        \/ e.fetch /\ e.ansible /\ e.bash /\ ~e.command}

VARIABLES
    tasks,        \* Vec<Task>
    stacks,       \* Vec<Stack>
    state_files,  \* state_dir: task name -> content of <name>.state
    task_dirs,    \* tasks_dir: names whose directory <tasks_dir>/<name> exists
    last,         \* the report of the last handler (its result and the Task calls
                  \* it made), on screen until the user dismisses the dialog
    task_selection,   \* TaskSelection.selected_indices of the task view
    stack_selection,  \* StackSelection.selected_indices of the stack view
    toggles,      \* history: per view and list position, the number of calls
                  \* of toggle since the last clear, modulo 2
    exec          \* the call of a function of executor.rs or downloader.rs
                  \* in progress: its arguments, its position, its result

vars == <<tasks, stacks, state_files, task_dirs, last, task_selection, stack_selection,
          toggles, exec>>

\* ---------------------------------------------------------------- helpers
OkEnv == [fetch |-> TRUE, ansible |-> TRUE, bash |-> TRUE, command |-> TRUE]

\* The collaborators a call of operation op on task t can consult.
Consults(t, op) ==
    {"fetch"}
        \cup (IF op = "uninstall" /\ t.cleanup_command THEN {"command"}
              ELSE CASE t.script_type = "Bash" -> {"bash"}
                     [] t.script_type = "Ansible" -> {"ansible"}
                     [] t.script_type = "Mixed" -> {"ansible", "bash"})

\* The outcomes that differ for such a call: a collaborator that is not
\* consulted is left at success.
EnvsFor(t, op) ==
    {e \in Envs : \A f \in {"fetch", "ansible", "bash", "command"} \ Consults(t, op) : e[f]}

Reverse(s) == [k \in 1..Len(s) |-> s[Len(s) + 1 - k]]

SeqsUpTo(S, n) == UNION {[1..k -> S] : k \in 0..n}

\* tasks.iter().find(|t| &t.name == task_name): index of the first match, 0 for None.
FindTask(ts, task_name) ==
    IF \E i \in 1..Len(ts) : ts[i].name = task_name
    THEN CHOOSE i \in 1..Len(ts) :
            /\ ts[i].name = task_name
            /\ \A j \in 1..(i - 1) : ts[j].name # task_name
    ELSE 0

\* ------------------------------------------------------------------- Task
\* Task::from_hashmap: local_path None, installed false.
NewTask(name, script_type, cleanup_command) ==
    [name |-> name, script_type |-> script_type, cleanup_command |-> cleanup_command,
     local_path |-> FALSE, installed |-> FALSE]

\* Task::check_installed: the value it stores in self.installed and returns.
CheckInstalled(t, files) ==
    IF files[t.name] # Absent
    THEN Trim(files[t.name]) = "installed"
    ELSE FALSE

\* The payload of the task is materialized: local_path is set and the path
\* exists on disk.
Materialized(t, dirs) == t.local_path /\ t.name \in dirs

\* Task::download fetching the payload whether or not it is on disk.
DownloadAlwaysFetches(t, dirs, env) ==
    IF env.fetch
    THEN [ok |-> TRUE, task |-> [t EXCEPT !.local_path = TRUE],
          dirs |-> dirs \cup {t.name}, steps |-> <<<<"fetch", t.name, TRUE>>>>]
    ELSE [ok |-> FALSE, task |-> t,
          dirs |-> dirs, steps |-> <<<<"fetch", t.name, FALSE>>>>]

\* Task::download recording the destination before the fetch has succeeded.
DownloadSetsPathFirst(t, dirs, env) ==
    IF t.local_path /\ t.name \in dirs
    THEN [ok |-> TRUE, task |-> t, dirs |-> dirs, steps |-> <<>>]
    ELSE IF env.fetch
         THEN [ok |-> TRUE, task |-> [t EXCEPT !.local_path = TRUE],
               dirs |-> dirs \cup {t.name}, steps |-> <<<<"fetch", t.name, TRUE>>>>]
         ELSE [ok |-> FALSE, task |-> [t EXCEPT !.local_path = TRUE],
               dirs |-> dirs, steps |-> <<<<"fetch", t.name, FALSE>>>>]

\* Task::download.  What a failed fetch leaves in <tasks_dir>/<name> is not
\* recorded: local_path stays unset, so nothing looks at that directory.
Download(t, dirs, env) ==
    IF t.local_path /\ t.name \in dirs
    THEN [ok |-> TRUE, task |-> t, dirs |-> dirs, steps |-> <<>>]
    ELSE IF env.fetch
         THEN [ok |-> TRUE, task |-> [t EXCEPT !.local_path = TRUE],
               dirs |-> dirs \cup {t.name}, steps |-> <<<<"fetch", t.name, TRUE>>>>]
         ELSE [ok |-> FALSE, task |-> t,
               dirs |-> dirs, steps |-> <<<<"fetch", t.name, FALSE>>>>]

\* The match on script_type with a Mixed task running the bash script first
\* and the playbook as the fallback.
RunPhaseBashFirst(t, phase, env) ==
    CASE t.script_type = "Bash" ->
            [ok |-> env.bash, steps |-> <<<<"bash", phase, env.bash>>>>]
      [] t.script_type = "Ansible" ->
            [ok |-> env.ansible, steps |-> <<<<"ansible", phase, env.ansible>>>>]
      [] t.script_type = "Mixed" ->
            IF env.bash
            THEN [ok |-> TRUE, steps |-> <<<<"bash", phase, TRUE>>>>]
            ELSE [ok |-> env.ansible,
                  steps |-> <<<<"bash", phase, FALSE>>, <<"ansible", phase, env.ansible>>>>]

\* The match on script_type that runs one lifecycle phase.  A step records
\* the runner, the phase and whether the runner returned Ok.
RunPhase(t, phase, env) ==
    CASE t.script_type = "Bash" ->
            [ok |-> env.bash, steps |-> <<<<"bash", phase, env.bash>>>>]
      [] t.script_type = "Ansible" ->
            [ok |-> env.ansible, steps |-> <<<<"ansible", phase, env.ansible>>>>]
      [] t.script_type = "Mixed" ->
            IF env.ansible
            THEN [ok |-> TRUE, steps |-> <<<<"ansible", phase, TRUE>>>>]
            ELSE [ok |-> env.bash,
                  steps |-> <<<<"ansible", phase, FALSE>>, <<"bash", phase, env.bash>>>>]

\* The match of Task::uninstall falling back to the uninstall phase when the
\* cleanup command fails.
RunUninstallFallsBack(t, env) ==
    IF t.cleanup_command /\ env.command
    THEN [ok |-> TRUE, steps |-> <<<<"command", "cleanup", TRUE>>>>]
    ELSE IF t.cleanup_command
    THEN [ok |-> RunPhase(t, "uninstall", env).ok,
          steps |-> <<<<"command", "cleanup", FALSE>>>>
                        \o RunPhase(t, "uninstall", env).steps]
    ELSE RunPhase(t, "uninstall", env)

\* The match of Task::uninstall: the cleanup command when there is one.
RunUninstall(t, env) ==
    IF t.cleanup_command
    THEN [ok |-> env.command, steps |-> <<<<"command", "cleanup", env.command>>>>]
    ELSE RunPhase(t, "uninstall", env)

Outcome(t, files, dirs, result, steps) ==
    [task |-> t, files |-> files, dirs |-> dirs, result |-> result, steps |-> steps]

\* Task::install that sets the flag and forgets to write the state file.
TaskInstallNoStateFile(t, files, dirs, env) ==
    LET d == Download(t, dirs, env)
        r == RunPhase(d.task, "install", env)
    IN  IF ~d.ok
        THEN Outcome(d.task, files, d.dirs, "DownloadError", d.steps)
        ELSE IF ~r.ok
        THEN Outcome(d.task, files, d.dirs, "ExecutionError", d.steps \o r.steps)
        ELSE Outcome([d.task EXCEPT !.installed = TRUE], files, d.dirs, "Ok",
                     d.steps \o r.steps)

\* Task::install that runs the phase before it materializes the payload.
TaskInstallRunsBeforeDownload(t, files, dirs, env) ==
    LET r == RunPhase(t, "install", env)
        d == Download(t, dirs, env)
    IN  IF ~r.ok
        THEN Outcome(t, files, dirs, "ExecutionError", r.steps)
        ELSE IF ~d.ok
        THEN Outcome(d.task, files, d.dirs, "DownloadError", r.steps \o d.steps)
        ELSE Outcome([d.task EXCEPT !.installed = TRUE],
                     [files EXCEPT ![t.name] = "installed"], d.dirs, "Ok",
                     r.steps \o d.steps \o <<<<"write_state", t.name, TRUE>>>>)

\* Task::install that marks the task installed before it runs the phase.
TaskInstallMarksFirst(t, files, dirs, env) ==
    LET d == Download(t, dirs, env)
        r == RunPhase(d.task, "install", env)
        marked == [d.task EXCEPT !.installed = TRUE]
        written == [files EXCEPT ![t.name] = "installed"]
    IN  IF ~d.ok
        THEN Outcome(d.task, files, d.dirs, "DownloadError", d.steps)
        ELSE IF ~r.ok
        THEN Outcome(marked, written, d.dirs, "ExecutionError",
                     d.steps \o <<<<"write_state", t.name, TRUE>>>> \o r.steps)
        ELSE Outcome(marked, written, d.dirs, "Ok",
                     d.steps \o <<<<"write_state", t.name, TRUE>>>> \o r.steps)

\* Task::install
TaskInstall(t, files, dirs, env) ==
    LET d == Download(t, dirs, env)
        r == RunPhase(d.task, "install", env)
    IN  IF ~d.ok
        THEN Outcome(d.task, files, d.dirs, "DownloadError", d.steps)
        ELSE IF ~r.ok
        THEN Outcome(d.task, files, d.dirs, "ExecutionError", d.steps \o r.steps)
        ELSE Outcome([d.task EXCEPT !.installed = TRUE],
                     [files EXCEPT ![t.name] = "installed"], d.dirs, "Ok",
                     d.steps \o r.steps \o <<<<"write_state", t.name, TRUE>>>>)

\* Task::uninstall without the check that the task is installed.
TaskUninstallNoCheck(t, files, dirs, env) ==
    LET d == Download(t, dirs, env)
        r == RunUninstall(d.task, env)
    IN  IF ~d.ok
        THEN Outcome(d.task, files, d.dirs, "DownloadError", d.steps)
        ELSE IF ~r.ok
        THEN Outcome(d.task, files, d.dirs, "ExecutionError", d.steps \o r.steps)
        ELSE Outcome([d.task EXCEPT !.installed = FALSE],
                     [files EXCEPT ![t.name] = Absent], d.dirs, "Ok",
                     d.steps \o r.steps \o <<<<"remove_state", t.name, TRUE>>>>)

\* Task::uninstall removing the state file and clearing the flag before the
\* cleanup is run.
TaskUninstallClearsFirst(t, files, dirs, env) ==
    LET c == [t EXCEPT !.installed = CheckInstalled(t, files)]
        d == Download(c, dirs, env)
        r == RunUninstall(d.task, env)
    IN  IF ~c.installed
        THEN Outcome(c, files, dirs, "NotInstalled", <<>>)
        ELSE IF ~d.ok
        THEN Outcome(d.task, files, d.dirs, "DownloadError", d.steps)
        ELSE IF ~r.ok
        THEN Outcome([d.task EXCEPT !.installed = FALSE],
                     [files EXCEPT ![t.name] = Absent], d.dirs, "ExecutionError",
                     d.steps \o <<<<"remove_state", t.name, TRUE>>>> \o r.steps)
        ELSE Outcome([d.task EXCEPT !.installed = FALSE],
                     [files EXCEPT ![t.name] = Absent], d.dirs, "Ok",
                     d.steps \o <<<<"remove_state", t.name, TRUE>>>> \o r.steps)

\* Task::uninstall
TaskUninstall(t, files, dirs, env) ==
    LET c == [t EXCEPT !.installed = CheckInstalled(t, files)]
        d == Download(c, dirs, env)
        r == RunUninstall(d.task, env)
    IN  IF ~c.installed
        THEN Outcome(c, files, dirs, "NotInstalled", <<>>)
        ELSE IF ~d.ok
        THEN Outcome(d.task, files, d.dirs, "DownloadError", d.steps)
        ELSE IF ~r.ok
        THEN Outcome(d.task, files, d.dirs, "ExecutionError", d.steps \o r.steps)
        ELSE Outcome([d.task EXCEPT !.installed = FALSE],
                     [files EXCEPT ![t.name] = Absent], d.dirs, "Ok",
                     d.steps \o r.steps \o <<<<"remove_state", t.name, TRUE>>>>)

\* Task::reset / Task::remediate that write the state file again on success.
TaskMaintainRewritesState(t, phase, files, dirs, env) ==
    LET c == [t EXCEPT !.installed = CheckInstalled(t, files)]
        d == Download(c, dirs, env)
        r == RunPhase(d.task, phase, env)
    IN  IF ~c.installed
        THEN Outcome(c, files, dirs, "NotInstalled", <<>>)
        ELSE IF ~d.ok
        THEN Outcome(d.task, files, d.dirs, "DownloadError", d.steps)
        ELSE IF ~r.ok
        THEN Outcome(d.task, files, d.dirs, "ExecutionError", d.steps \o r.steps)
        ELSE Outcome(d.task, [files EXCEPT ![t.name] = "installed"], d.dirs, "Ok",
                     d.steps \o r.steps)

\* Task::reset and Task::remediate: the same code but for the phase name.
TaskMaintain(t, phase, files, dirs, env) ==
    LET c == [t EXCEPT !.installed = CheckInstalled(t, files)]
        d == Download(c, dirs, env)
        r == RunPhase(d.task, phase, env)
    IN  IF ~c.installed
        THEN Outcome(c, files, dirs, "NotInstalled", <<>>)
        ELSE IF ~d.ok
        THEN Outcome(d.task, files, d.dirs, "DownloadError", d.steps)
        ELSE IF ~r.ok
        THEN Outcome(d.task, files, d.dirs, "ExecutionError", d.steps \o r.steps)
        ELSE Outcome(d.task, files, d.dirs, "Ok", d.steps \o r.steps)

\* Task::reset
TaskReset(t, files, dirs, env) == TaskMaintain(t, "reset", files, dirs, env)

\* Task::remediate
TaskRemediate(t, files, dirs, env) == TaskMaintain(t, "remediate", files, dirs, env)

\* The Task method a lifecycle operation name stands for.
TaskOp(op, t, files, dirs, env) ==
    CASE op = "install" -> TaskInstall(t, files, dirs, env)
      [] op = "uninstall" -> TaskUninstall(t, files, dirs, env)
      [] op = "reset" -> TaskReset(t, files, dirs, env)
      [] op = "remediate" -> TaskRemediate(t, files, dirs, env)

\* ------------------------------------------------------------------ Stack
\* The counting loop counting every member that is found, installed or not.
RECURSIVE CountFound(_, _, _)
CountFound(task_names, ts, k) ==
    IF k > Len(task_names)
    THEN 0
    ELSE (IF FindTask(ts, task_names[k]) # 0 THEN 1 ELSE 0)
            + CountFound(task_names, ts, k + 1)

\* The counting loop of Stack::check_installation_status over task_names[k..].
RECURSIVE CountInstalled(_, _, _)
CountInstalled(task_names, ts, k) ==
    IF k > Len(task_names)
    THEN 0
    ELSE LET i == FindTask(ts, task_names[k])
         IN  (IF i # 0 /\ ts[i].installed THEN 1 ELSE 0)
                + CountInstalled(task_names, ts, k + 1)

\* Stack::check_installation_status without the upper bound on "partially".
CheckInstallationStatusNoUpperBound(task_names, ts) ==
    LET total_tasks == Len(task_names)
        installed_count == CountInstalled(task_names, ts, 1)
    IN  IF total_tasks = 0
        THEN [fully_installed |-> FALSE, partially_installed |-> FALSE]
        ELSE [fully_installed |-> installed_count = total_tasks /\ total_tasks > 0,
              partially_installed |-> installed_count > 0]

\* Stack::check_installation_status: the two flags it stores.
CheckInstallationStatus(task_names, ts) ==
    LET total_tasks == Len(task_names)
        installed_count == CountInstalled(task_names, ts, 1)
    IN  IF total_tasks = 0
        THEN [fully_installed |-> FALSE, partially_installed |-> FALSE]
        ELSE [fully_installed |-> installed_count = total_tasks /\ total_tasks > 0,
              partially_installed |-> installed_count > 0 /\ installed_count < total_tasks]

\* Stack::from_hashmap: both flags false.
\* check_installation_status that first reads every Task's state file again.
StackCheckInstallationStatusRefreshes(st, ts, files) ==
    LET fresh == [i \in 1..Len(ts) |->
                    [ts[i] EXCEPT !.installed = CheckInstalled(ts[i], files)]]
        flags == CheckInstallationStatus(st.task_names, fresh)
    IN  [stack |-> [st EXCEPT !.fully_installed = flags.fully_installed,
                              !.partially_installed = flags.partially_installed],
         tasks |-> fresh, files |-> files]

\* Stack::check_installation_status(&mut self, tasks: &[Task]) as a method:
\* the Stack, the Task collection and the state directory after the call.
StackCheckInstallationStatus(st, ts, files) ==
    LET flags == CheckInstallationStatus(st.task_names, ts)
    IN  [stack |-> [st EXCEPT !.fully_installed = flags.fully_installed,
                              !.partially_installed = flags.partially_installed],
         tasks |-> ts, files |-> files]

NewStack(task_names) ==
    [task_names |-> task_names, fully_installed |-> FALSE, partially_installed |-> FALSE]

\* The record of one iteration / one Task method call kept in the report:
\* the member name, the index of the Task found (0 for none), the Task's
\* installed flag and the state directory before and after the call, the
\* result and the external steps the call took, whether the payload was
\* materialized when the call began, and whether local_path was set before
\* and after the call.
Call(op, task_name, i, before, after, files_before, files_after, result, steps, materialized, path_before, path_after) ==
    [op |-> op, name |-> task_name, index |-> i,
     installed_before |-> before, installed_after |-> after,
     files_before |-> files_before, files_after |-> files_after,
     result |-> result, steps |-> steps, materialized |-> materialized,
     local_path_before |-> path_before, local_path_after |-> path_after]

\* One iteration of the member loop that passes over a name no Task has.
VisitMemberSkipsMissing(op, task_name, env, acc) ==
    LET i == FindTask(acc.tasks, task_name)
    IN  IF i = 0
        THEN [acc EXCEPT
                !.calls = Append(@, Call(op, task_name, 0, FALSE, FALSE,
                                         acc.files, acc.files, "TaskNotFound", <<>>, FALSE, FALSE, FALSE))]
        ELSE LET o == TaskOp(op, acc.tasks[i], acc.files, acc.dirs, env)
             IN  [tasks |-> [acc.tasks EXCEPT ![i] = o.task],
                  files |-> o.files,
                  dirs |-> o.dirs,
                  failed |-> IF o.result = "Ok" THEN acc.failed
                             ELSE Append(acc.failed, task_name),
                  calls |-> Append(acc.calls,
                                   Call(op, task_name, i, acc.tasks[i].installed,
                                        o.task.installed, acc.files, o.files,
                                        o.result, o.steps,
                                        Materialized(acc.tasks[i], acc.dirs),
                                        acc.tasks[i].local_path,
                                        o.task.local_path))]

\* One iteration of the member loop that passes over a member of
\* Stack::install that is installed already.
VisitMemberSkipsInstalled(op, task_name, env, acc) ==
    LET i == FindTask(acc.tasks, task_name)
    IN  IF i = 0
        THEN [acc EXCEPT
                !.failed = Append(@, task_name),
                !.calls = Append(@, Call(op, task_name, 0, FALSE, FALSE,
                                         acc.files, acc.files, "TaskNotFound", <<>>, FALSE, FALSE, FALSE))]
        ELSE IF op = "install" /\ acc.tasks[i].installed
        THEN [acc EXCEPT
                !.calls = Append(@, Call(op, task_name, i, TRUE, TRUE,
                                         acc.files, acc.files, "Ok", <<>>,
                                         Materialized(acc.tasks[i], acc.dirs),
                                         acc.tasks[i].local_path,
                                         acc.tasks[i].local_path))]
        ELSE LET o == TaskOp(op, acc.tasks[i], acc.files, acc.dirs, env)
             IN  [tasks |-> [acc.tasks EXCEPT ![i] = o.task],
                  files |-> o.files,
                  dirs |-> o.dirs,
                  failed |-> IF o.result = "Ok" THEN acc.failed
                             ELSE Append(acc.failed, task_name),
                  calls |-> Append(acc.calls,
                                   Call(op, task_name, i, acc.tasks[i].installed,
                                        o.task.installed, acc.files, o.files,
                                        o.result, o.steps,
                                        Materialized(acc.tasks[i], acc.dirs),
                                        acc.tasks[i].local_path,
                                        o.task.local_path))]

\* One iteration of the member loop of a Stack operation: look the name up,
\* call the Task method, push the name on failed_tasks when it fails or when
\* no Task has the name.
VisitMember(op, task_name, env, acc) ==
    LET i == FindTask(acc.tasks, task_name)
    IN  IF i = 0
        THEN [acc EXCEPT
                !.failed = Append(@, task_name),
                !.calls = Append(@, Call(op, task_name, 0, FALSE, FALSE,
                                         acc.files, acc.files, "TaskNotFound", <<>>, FALSE, FALSE, FALSE))]
        ELSE LET o == TaskOp(op, acc.tasks[i], acc.files, acc.dirs, env)
             IN  [tasks |-> [acc.tasks EXCEPT ![i] = o.task],
                  files |-> o.files,
                  dirs |-> o.dirs,
                  failed |-> IF o.result = "Ok" THEN acc.failed
                             ELSE Append(acc.failed, task_name),
                  calls |-> Append(acc.calls,
                                   Call(op, task_name, i, acc.tasks[i].installed,
                                        o.task.installed, acc.files, o.files,
                                        o.result, o.steps,
                                        Materialized(acc.tasks[i], acc.dirs),
                                        acc.tasks[i].local_path,
                                        o.task.local_path))]

\* The member loop leaving at the first failure.
RECURSIVE FanOutStopsAtFailure(_, _, _, _, _)
FanOutStopsAtFailure(op, order, envs, k, acc) ==
    IF k > Len(order) \/ acc.failed # <<>>
    THEN acc
    ELSE FanOutStopsAtFailure(op, order, envs, k + 1,
                              VisitMember(op, order[k], envs[k], acc))

\* The member loop from position k on; order is the iteration order and
\* envs[k] what the collaborators do during the k-th iteration.
RECURSIVE FanOut(_, _, _, _, _)
FanOut(op, order, envs, k, acc) ==
    IF k > Len(order)
    THEN acc
    ELSE FanOut(op, order, envs, k + 1, VisitMember(op, order[k], envs[k], acc))

StartFanOut(ts, files, dirs) ==
    [tasks |-> ts, files |-> files, dirs |-> dirs, failed |-> <<>>, calls |-> <<>>]

\* Every Stack operation iterating in declared order.
VisitOrderDeclared(op, task_names) == task_names

\* The order in which each Stack operation iterates over task_names.
VisitOrder(op, task_names) ==
    IF op = "uninstall" THEN Reverse(task_names) ELSE task_names

\* Every Stack operation recomputing the flags after the loop.
RecomputesAlways(op) == TRUE

\* Only Stack::uninstall recomputing the flags after the loop.
RecomputesOnlyUninstall(op) == op = "uninstall"

\* Stack::install and Stack::uninstall recompute the flags after the loop;
\* Stack::reset and Stack::remediate do not.
Recomputes(op) == op \in {"install", "uninstall"}

\* A Stack operation that puts the Tasks and the state directory back when a
\* member failed.
StackOpRollsBack(op, st, ts, files, dirs, envs) ==
    LET r == FanOut(op, VisitOrder(op, st.task_names), envs, 1, StartFanOut(ts, files, dirs))
        kept == IF r.failed = <<>> THEN r ELSE [r EXCEPT !.tasks = ts, !.files = files]
        flags == IF Recomputes(op)
                 THEN CheckInstallationStatus(st.task_names, kept.tasks)
                 ELSE [fully_installed |-> st.fully_installed,
                       partially_installed |-> st.partially_installed]
    IN  [stack |-> [st EXCEPT !.fully_installed = flags.fully_installed,
                              !.partially_installed = flags.partially_installed],
         tasks |-> kept.tasks, files |-> kept.files, dirs |-> r.dirs,
         failed |-> r.failed, calls |-> r.calls,
         result |-> IF r.failed = <<>> THEN "Ok" ELSE "StackError"]

\* Stack::install / uninstall / reset / remediate on stack st.
StackOp(op, st, ts, files, dirs, envs) ==
    LET r == FanOut(op, VisitOrder(op, st.task_names), envs, 1, StartFanOut(ts, files, dirs))
        checked == IF Recomputes(op)
                   THEN StackCheckInstallationStatus(st, r.tasks, r.files)
                   ELSE [stack |-> st, tasks |-> r.tasks, files |-> r.files]
    IN  [stack |-> checked.stack,
         tasks |-> checked.tasks, files |-> checked.files, dirs |-> r.dirs,
         failed |-> r.failed, calls |-> r.calls,
         result |-> IF r.failed = <<>> THEN "Ok" ELSE "StackError"]

\* ------------------------------------------------------------------- load
\* load_tasks: every parsed entry is pushed, after check_installed.
LoadTasks(defs, files) ==
    [i \in 1..Len(defs) |->
        LET t == NewTask(defs[i].name, defs[i].script_type, defs[i].cleanup_command)
        IN  [t EXCEPT !.installed = CheckInstalled(t, files)]]

\* load_stacks: every parsed entry is pushed, after check_installation_status.
LoadStacks(defs, ts, files) ==
    [s \in 1..Len(defs) |->
        StackCheckInstallationStatus(NewStack(defs[s]), ts, files).stack]

TaskDefs(types, cleanups) ==
    [name : TaskNameSet, script_type : types, cleanup_command : cleanups]

NonEmptySeqsUpTo(S, n) == SeqsUpTo(S, n) \ {<<>>}

\* No report on screen.
Idle == [view |-> "none", op |-> "none", index |-> 0, result |-> "Ok",
         failed |-> <<>>, calls |-> <<>>]

\* TaskSelection::new and StackSelection::new: nothing was toggled yet.
NoToggles(ts, sts) ==
    [task |-> [i \in 1..Len(ts) |-> 0], stack |-> [i \in 1..Len(sts) |-> 0]]

\* No function of executor.rs or downloader.rs is being followed.
NoExec == [fn |-> "none"]

\* run_app after load_tasks and load_stacks.  The first task definition is of
\* any script type, with or without cleanup command, the further ones are
\* bash tasks without cleanup command; there are MaxStacks stack definitions.
Init ==
    \E tdefs \in NonEmptySeqsUpTo(TaskDefs(ScriptType, BOOLEAN), MaxTasks) :
    \E files \in [{tdefs[i].name : i \in 1..Len(tdefs)} -> FileStates] :
    \E sdefs \in [1..MaxStacks -> SeqsUpTo(StackRefSet, MaxStackLen)] :
        /\ tdefs[1].name = "A"
        /\ \A i \in 2..Len(tdefs) :
              tdefs[i].script_type = "Bash" /\ ~tdefs[i].cleanup_command
        /\ state_files = files
        /\ task_dirs = {}
        /\ tasks = LoadTasks(tdefs, files)
        /\ stacks = LoadStacks(sdefs, tasks, files)
        /\ last = Idle
        /\ task_selection = {}
        /\ stack_selection = {}
        /\ toggles = NoToggles(tasks, stacks)
        /\ exec = NoExec

\* ------------------------------------------------------- task view buttons
\* The buttons of create_task_view acting on the task under the cursor.
\* Install returns early on an installed task; the other three act on the
\* cursor only when no task is selected, and return early on a task that is
\* not installed.
\* The mutexes whose guard is alive while a handler of the view runs the
\* operation: the handlers of the task view call task.install(&config_guard)
\* on a task borrowed from tasks_guard, those of the stack view call
\* stack.install(&config_guard, &mut tasks_guard) on a stack borrowed from
\* stacks_guard; the guards are dropped at the end of the enclosing block.
HeldDuring(view) ==
    IF view \in {"task", "task_batch"}
    THEN {"tasks", "config"}
    ELSE {"stacks", "tasks", "config"}

Applicable(op, t) == IF op = "install" THEN ~t.installed ELSE t.installed

TaskButton(op) ==
    /\ last = Idle
    /\ op # "install" => task_selection = {}
    /\ \E i \in 1..Len(tasks) :
        /\ Applicable(op, tasks[i])
        /\ \E env \in EnvsFor(tasks[i], op) :
           \E o \in {TaskOp(op, tasks[i], state_files, task_dirs, env)} :
            /\ tasks' = [tasks EXCEPT ![i] = o.task]
            /\ state_files' = o.files
            /\ task_dirs' = o.dirs
            /\ last' = [view |-> "task", op |-> op, index |-> i, result |-> o.result,
                        failed |-> <<>>, held |-> HeldDuring("task"),
                        calls |-> <<Call(op, tasks[i].name, i, tasks[i].installed,
                                         o.task.installed, state_files, o.files,
                                         o.result, o.steps,
                                         Materialized(tasks[i], task_dirs),
                                         tasks[i].local_path,
                                         o.task.local_path)>>]
    /\ UNCHANGED <<stacks, task_selection, stack_selection, toggles, exec>>

TaskViewInstall == TaskButton("install")

TaskViewUninstall == TaskButton("uninstall")

TaskViewReset == TaskButton("reset")

TaskViewRemediate == TaskButton("remediate")

\* ------------------------------------------------------ stack view buttons
\* The single-stack buttons of create_stack_view.  Install returns early on a
\* fully installed stack; the other three on a stack with neither flag set.
StackApplicable(op, st) ==
    IF op = "install"
    THEN ~st.fully_installed
    ELSE st.fully_installed \/ st.partially_installed

\* StackItem::can_install
CanInstall(st) == ~st.fully_installed

\* What the collaborators do during each iteration of the member loop.
EnvSeqs(op, st) ==
    LET order == VisitOrder(op, st.task_names)
    IN  {envs \in [1..Len(order) -> Envs] :
            \A k \in 1..Len(order) :
                LET i == FindTask(tasks, order[k])
                IN  IF i = 0 THEN envs[k] = OkEnv
                    ELSE envs[k] \in EnvsFor(tasks[i], op)}

StackButton(op) ==
    /\ last = Idle
    /\ op # "install" => stack_selection = {}
    /\ \E s \in 1..Len(stacks) :
        /\ StackApplicable(op, stacks[s])
        /\ \E envs \in EnvSeqs(op, stacks[s]) :
           \E o \in {StackOp(op, stacks[s], tasks, state_files, task_dirs, envs)} :
            /\ stacks' = [stacks EXCEPT ![s] = o.stack]
            /\ tasks' = o.tasks
            /\ state_files' = o.files
            /\ task_dirs' = o.dirs
            /\ last' = [view |-> "stack", op |-> op, index |-> s, result |-> o.result,
                        failed |-> o.failed, held |-> HeldDuring("stack"),
                        calls |-> o.calls]
    /\ UNCHANGED <<task_selection, stack_selection, toggles, exec>>

StackViewInstall == StackButton("install")

StackViewUninstall == StackButton("uninstall")

StackViewReset == StackButton("reset")

StackViewRemediate == StackButton("remediate")

\* The result dialog a handler leaves on top of the view takes the input
\* until its button pops it; the buttons of the view work again after that.
DismissDialog ==
    /\ last # Idle
    /\ last' = Idle
    /\ UNCHANGED <<tasks, stacks, state_files, task_dirs, task_selection, stack_selection, toggles, exec>>

Next ==
    \/ TaskViewInstall
    \/ TaskViewUninstall
    \/ TaskViewReset
    \/ TaskViewRemediate
    \/ StackViewInstall
    \/ StackViewUninstall
    \/ StackViewReset
    \/ StackViewRemediate
    \/ DismissDialog

Spec == Init /\ [][Next]_vars

\* ---------------------------------------------------------------- batches
\* toggle inserting the index whether or not the set holds it.
ToggleOnlyInserts(selected_indices, idx) == selected_indices \cup {idx}

\* TaskSelection::toggle and StackSelection::toggle.
Toggle(selected_indices, idx) ==
    IF idx \in selected_indices
    THEN selected_indices \ {idx}
    ELSE selected_indices \cup {idx}

\* TaskSelection::clear and StackSelection::clear.
Clear(selected_indices) == {}

\* TaskSelection::is_selected and StackSelection::is_selected.
IsSelected(selected_indices, idx) == idx \in selected_indices

\* get_selected_indices: the indices of the set collected into a vector and
\* sorted.
RECURSIVE GetSelectedIndices(_)
GetSelectedIndices(selected_indices) ==
    IF selected_indices = {}
    THEN <<>>
    ELSE LET m == CHOOSE i \in selected_indices : \A j \in selected_indices : i <= j
         IN  <<m>> \o GetSelectedIndices(selected_indices \ {m})

\* The batch loops of the two views add one to success_count for a unit that
\* install does not apply to; the loops of the other operations only skip it.
CountsInapplicable(op) == op = "install"

\* What the batch loop did with one selected index: whether the operation
\* applied, whether it was invoked, what the unit added to the tally, and the
\* result of the operation.
Unit(idx, applicable, invoked, counted_success, counted_error, result) ==
    [index |-> idx, applicable |-> applicable, invoked |-> invoked,
     counted_success |-> counted_success, counted_error |-> counted_error,
     result |-> result]

\* The loop variables of a batch before the first index.
StartBatch(ts, sts, files, dirs) ==
    [tasks |-> ts, stacks |-> sts, files |-> files, dirs |-> dirs,
     success_count |-> 0, errors |-> <<>>, units |-> <<>>, calls |-> <<>>]

\* The tally of a unit the operation does not apply to.
SkipUnit(op, idx, acc) ==
    [acc EXCEPT
        !.success_count = IF CountsInapplicable(op) THEN @ + 1 ELSE @,
        !.units = Append(@, Unit(idx, FALSE, FALSE, CountsInapplicable(op),
                                 FALSE, "Skipped"))]

\* The tally of a unit whose operation returned result.
CountUnit(idx, result, acc) ==
    [acc EXCEPT
        !.success_count = IF result = "Ok" THEN @ + 1 ELSE @,
        !.errors = IF result = "Ok" THEN @ ELSE Append(@, idx),
        !.units = Append(@, Unit(idx, TRUE, TRUE, result = "Ok",
                                 result # "Ok", result))]

\* The loop variables after task.install / uninstall / reset / remediate on
\* the task at idx returned o.
TaskUnitDone(op, idx, o, acc) ==
    CountUnit(idx, o.result,
              [acc EXCEPT !.tasks = [acc.tasks EXCEPT ![idx] = o.task],
                          !.files = o.files,
                          !.dirs = o.dirs,
                          !.calls = Append(@, Call(op, acc.tasks[idx].name, idx,
                                                   acc.tasks[idx].installed,
                                                   o.task.installed, acc.files,
                                                   o.files, o.result, o.steps,
                                                   Materialized(acc.tasks[idx],
                                                                acc.dirs),
                                                   acc.tasks[idx].local_path,
                                                   o.task.local_path))])

\* One iteration of the batch loop of the task view.
TaskBatchUnit(op, idx, env, acc) ==
    IF ~Applicable(op, acc.tasks[idx])
    THEN SkipUnit(op, idx, acc)
    ELSE TaskUnitDone(op, idx,
                      TaskOp(op, acc.tasks[idx], acc.files, acc.dirs, env), acc)

\* The loop variables after stack.install / uninstall / reset / remediate on
\* the stack at idx returned o.
StackUnitDone(idx, o, acc) ==
    CountUnit(idx, o.result,
              [acc EXCEPT !.stacks = [acc.stacks EXCEPT ![idx] = o.stack],
                          !.tasks = o.tasks,
                          !.files = o.files,
                          !.dirs = o.dirs,
                          !.calls = @ \o o.calls])

\* One iteration of the batch loop of the stack view.
StackBatchUnit(op, idx, envs, acc) ==
    IF ~StackApplicable(op, acc.stacks[idx])
    THEN SkipUnit(op, idx, acc)
    ELSE StackUnitDone(idx,
                       StackOp(op, acc.stacks[idx], acc.tasks, acc.files, acc.dirs, envs),
                       acc)

\* The batch loop leaving at the first unit that fails.
RECURSIVE BatchLoopStopsAtError(_, _, _, _, _, _)
BatchLoopStopsAtError(kind, op, indices, envs, k, acc) ==
    IF k > Len(indices) \/ acc.errors # <<>>
    THEN acc
    ELSE BatchLoopStopsAtError(kind, op, indices, envs, k + 1,
                    IF kind = "task_batch"
                    THEN TaskBatchUnit(op, indices[k], envs[k], acc)
                    ELSE StackBatchUnit(op, indices[k], envs[k], acc))

\* for (i, idx) in selected_indices.iter().enumerate(): the batch loop from
\* position k on; envs[k] is what the collaborators do during iteration k.
RECURSIVE BatchLoop(_, _, _, _, _, _)
BatchLoop(kind, op, indices, envs, k, acc) ==
    IF k > Len(indices)
    THEN acc
    ELSE BatchLoop(kind, op, indices, envs, k + 1,
                   IF kind = "task_batch"
                   THEN TaskBatchUnit(op, indices[k], envs[k], acc)
                   ELSE StackBatchUnit(op, indices[k], envs[k], acc))

\* The result dialog of a batch.
BatchReport(kind, op, o) ==
    [view |-> kind, op |-> op, index |-> 0,
     result |-> IF o.errors = <<>> THEN "Ok" ELSE "BatchErrors",
     failed |-> <<>>, held |-> HeldDuring(kind), calls |-> o.calls,
     success_count |-> o.success_count, errors |-> o.errors, units |-> o.units]

\* The Enter key on the list of the task view: toggle the selection of the
\* task under the cursor.
ToggleTask ==
    /\ last = Idle
    /\ \E idx \in 1..Len(tasks) :
        /\ task_selection' = Toggle(task_selection, idx)
        /\ toggles' = [toggles EXCEPT !.task[idx] = (@ + 1) % 2]
    /\ UNCHANGED <<tasks, stacks, state_files, task_dirs, last, stack_selection, exec>>

\* The same key on the list of the stack view.
ToggleStack ==
    /\ last = Idle
    /\ \E idx \in 1..Len(stacks) :
        /\ stack_selection' = Toggle(stack_selection, idx)
        /\ toggles' = [toggles EXCEPT !.stack[idx] = (@ + 1) % 2]
    /\ UNCHANGED <<tasks, stacks, state_files, task_dirs, last, task_selection, exec>>

\* Button "Pulisci Selezione" of the task view: TaskSelection::clear.
ClearTaskSelection ==
    /\ last = Idle
    /\ task_selection # {}
    /\ task_selection' = Clear(task_selection)
    /\ toggles' = [toggles EXCEPT !.task = [i \in DOMAIN @ |-> 0]]
    /\ UNCHANGED <<tasks, stacks, state_files, task_dirs, last, stack_selection, exec>>

\* Button "Pulisci Selezione" of the stack view.
ClearStackSelection ==
    /\ last = Idle
    /\ stack_selection # {}
    /\ stack_selection' = Clear(stack_selection)
    /\ toggles' = [toggles EXCEPT !.stack = [i \in DOMAIN @ |-> 0]]
    /\ UNCHANGED <<tasks, stacks, state_files, task_dirs, last, task_selection, exec>>

\* What the collaborators do during each iteration of a task batch.
TaskBatchEnvs(op, indices) ==
    {envs \in [1..Len(indices) -> Envs] :
        \A k \in 1..Len(indices) :
            IF Applicable(op, tasks[indices[k]])
            THEN envs[k] \in EnvsFor(tasks[indices[k]], op)
            ELSE envs[k] = OkEnv}

\* What the collaborators do during each iteration of a stack batch: one
\* sequence of outcomes per selected stack.
StackBatchEnvs(op, indices) ==
    {envs \in [1..Len(indices) ->
                    UNION {EnvSeqs(op, stacks[s]) : s \in 1..Len(stacks)}] :
        \A k \in 1..Len(indices) :
            IF StackApplicable(op, stacks[indices[k]])
            THEN envs[k] \in EnvSeqs(op, stacks[indices[k]])
            ELSE envs[k] = [j \in 1..Len(stacks[indices[k]].task_names) |-> OkEnv]}

\* A batch over the selected tasks, confirmed by the user.  The selection
\* holds list positions, all of which exist in the collection.
TaskBatch(op) ==
    /\ last = Idle
    /\ task_selection # {}
    /\ LET indices == GetSelectedIndices(task_selection)
       IN  \E envs \in TaskBatchEnvs(op, indices) :
           \E o \in {BatchLoop("task_batch", op, indices, envs, 1,
                               StartBatch(tasks, stacks, state_files, task_dirs))} :
            /\ tasks' = o.tasks
            /\ state_files' = o.files
            /\ task_dirs' = o.dirs
            /\ last' = BatchReport("task_batch", op, o)
    /\ UNCHANGED <<stacks, task_selection, stack_selection, toggles, exec>>

\* A batch over the selected stacks, confirmed by the user.
StackBatch(op) ==
    /\ last = Idle
    /\ stack_selection # {}
    /\ LET indices == GetSelectedIndices(stack_selection)
       IN  \E envs \in StackBatchEnvs(op, indices) :
           \E o \in {BatchLoop("stack_batch", op, indices, envs, 1,
                               StartBatch(tasks, stacks, state_files, task_dirs))} :
            /\ stacks' = o.stacks
            /\ tasks' = o.tasks
            /\ state_files' = o.files
            /\ task_dirs' = o.dirs
            /\ last' = BatchReport("stack_batch", op, o)
    /\ UNCHANGED <<task_selection, stack_selection, toggles, exec>>

\* Button "Install Selezionati" pressed with nothing selected: a dialog says
\* so and nothing else happens.
NothingSelected(kind) ==
    /\ last = Idle
    /\ last' = [BatchReport(kind, "install", StartBatch(tasks, stacks, state_files, task_dirs))
                    EXCEPT !.result = "NothingSelected"]
    /\ UNCHANGED <<tasks, stacks, state_files, task_dirs, task_selection, stack_selection, toggles, exec>>

\* Button "Install Selezionati" of the task view.
TaskViewInstallSelected ==
    \/ TaskBatch("install")
    \/ task_selection = {} /\ NothingSelected("task_batch")

\* Buttons "Uninstall", "Reset" and "Remediate" of the task view with tasks
\* selected.
TaskViewUninstallSelected == TaskBatch("uninstall")

TaskViewResetSelected == TaskBatch("reset")

TaskViewRemediateSelected == TaskBatch("remediate")

\* Button "Install Selezionati" of the stack view.
StackViewInstallSelected ==
    \/ StackBatch("install")
    \/ stack_selection = {} /\ NothingSelected("stack_batch")

\* Buttons "Uninstall", "Reset" and "Remediate" of the stack view with stacks
\* selected.
StackViewUninstallSelected == StackBatch("uninstall")

StackViewResetSelected == StackBatch("reset")

StackViewRemediateSelected == StackBatch("remediate")

\* run_app with bash tasks without cleanup command only.
BatchInit ==
    /\ Init
    /\ \A i \in 1..Len(tasks) : tasks[i].script_type = "Bash" /\ ~tasks[i].cleanup_command

\* Every button and key of the two views.
BatchNext ==
    \/ Next
    \/ ToggleTask
    \/ ToggleStack
    \/ ClearTaskSelection
    \/ ClearStackSelection
    \/ TaskViewInstallSelected
    \/ TaskViewUninstallSelected
    \/ TaskViewResetSelected
    \/ TaskViewRemediateSelected
    \/ StackViewInstallSelected
    \/ StackViewUninstallSelected
    \/ StackViewResetSelected
    \/ StackViewRemediateSelected

BatchSpec == BatchInit /\ [][BatchNext]_vars

\* ============================================================ executor.rs
MaxExitCode == 2
MaxTimeoutSecs == 1
MaxOversleep == 1

\* The polls of one second: thread::sleep(Duration::from_millis(100)).
PollsPerSec == 10

\* std::process::ExitStatus: the exit code of a child that exited, or no code
\* for a child that a signal killed.
ExitStatuses ==
    {[has_code |-> TRUE, code |-> c] : c \in 0..MaxExitCode}
        \cup {[has_code |-> FALSE, code |-> 0]}

\* ExitStatus::success taking a child without exit code for a success.
SuccessIgnoresSignal(status) == status.code = 0

\* ExitStatus::success
Success(status) == status.has_code /\ status.code = 0

\* status.code().unwrap_or(default)
UnwrapOr(status, default) == IF status.has_code THEN status.code ELSE default

\* Result<()>: Ok(()), or an error of the kind given; an error "ExitCode"
\* carries the code of its message.
ExecOk == [ok |-> TRUE, error |-> "none", code |-> 0, child |-> TRUE]

ExecErr(error, child) == [ok |-> FALSE, error |-> error, code |-> 0, child |-> child]

\* The function has not returned yet.
NoResult == ExecErr("none", FALSE)

\* if !status.success() { return Err(anyhow!("... failed with exit code: {}",
\* status.code().unwrap_or(-1))) } Ok(())
ExitResult(status) ==
    IF ~Success(status)
    THEN [ok |-> FALSE, error |-> "ExitCode", code |-> UnwrapOr(status, -1),
          child |-> TRUE]
    ELSE ExecOk

\* run_command: spawn sh -c, wait, look at the status.
RunCommand(env) ==
    IF ~env.spawn THEN ExecErr("SpawnError", FALSE)
    ELSE IF ~env.wait THEN ExecErr("WaitError", FALSE)
    ELSE ExitResult(env.status)

\* run_bash_script: resolve the script, check that it exists, make it
\* executable, spawn it, wait, look at the status.
RunBashScript(env) ==
    IF env.is_dir /\ ~env.found THEN ExecErr("NotFound", FALSE)
    ELSE IF ~env.exists THEN ExecErr("NotFound", FALSE)
    ELSE IF ~env.chmod THEN ExecErr("PermissionsError", FALSE)
    ELSE IF ~env.spawn THEN ExecErr("SpawnError", FALSE)
    ELSE IF ~env.wait THEN ExecErr("WaitError", FALSE)
    ELSE ExitResult(env.status)

\* run_ansible_playbook: resolve the playbook, check that it exists, spawn
\* ansible-playbook, wait, look at the status.
RunAnsiblePlaybook(env) ==
    IF env.is_dir /\ ~env.found THEN ExecErr("NotFound", FALSE)
    ELSE IF ~env.exists THEN ExecErr("NotFound", FALSE)
    ELSE IF ~env.spawn THEN ExecErr("SpawnError", FALSE)
    ELSE IF ~env.wait THEN ExecErr("WaitError", FALSE)
    ELSE ExitResult(env.status)

\* What the system does during one call of a runner.
RunnerEnvs ==
    [is_dir : BOOLEAN, found : BOOLEAN, exists : BOOLEAN, chmod : BOOLEAN,
     spawn : BOOLEAN, wait : BOOLEAN, status : ExitStatuses]

Runners == {"run_command", "run_bash_script", "run_ansible_playbook"}

\* The runner consults every condition that is not held true here.
RunnerConsults(fn, env) ==
    CASE fn = "run_command" ->
            env.is_dir /\ env.found /\ env.exists /\ env.chmod
      [] fn = "run_ansible_playbook" -> env.chmod
      [] fn = "run_bash_script" -> TRUE

\* The calls of the runners to follow.
RunnerCalls ==
    UNION {{[fn |-> fn, pc |-> "call", env |-> env, result |-> NoResult] :
                env \in {e \in RunnerEnvs : RunnerConsults(fn, e)}} : fn \in Runners}

\* A runner runs to its return.
RunnerReturns ==
    /\ exec.fn \in Runners
    /\ exec.pc = "call"
    /\ exec' = [exec EXCEPT
                 !.pc = "done",
                 !.result = CASE exec.fn = "run_command" -> RunCommand(exec.env)
                              [] exec.fn = "run_bash_script" -> RunBashScript(exec.env)
                              [] exec.fn = "run_ansible_playbook" ->
                                    RunAnsiblePlaybook(exec.env)]
    /\ UNCHANGED <<tasks, stacks, state_files, task_dirs, last, task_selection,
                   stack_selection, toggles>>

\* What the system does during one call of run_command_with_timeout: whether
\* the spawn works, whether try_wait works, whether and when (in polls since
\* the start) the child exits, and with what status.
TimeoutEnvs ==
    [spawn : BOOLEAN, try_wait : BOOLEAN, exits : BOOLEAN,
     at : 0..(MaxTimeoutSecs * PollsPerSec + 2), status : ExitStatuses]

\* The calls of run_command_with_timeout to follow.
TimeoutCalls ==
    {[fn |-> "run_command_with_timeout", pc |-> "spawn", timeout_secs |-> t,
      elapsed |-> 0, env |-> env, signalled |-> FALSE,
      result |-> NoResult] :
        t \in 0..MaxTimeoutSecs,
        env \in {e \in TimeoutEnvs :
                    /\ ~e.spawn => e.try_wait /\ ~e.exits
                    /\ ~e.exits => e.at = 0 /\ e.status = [has_code |-> TRUE, code |-> 0]}}

\* The child has exited by the time of the poll.
Exited(x) == x.env.exits /\ x.env.at <= x.elapsed

\* run_command_with_timeout: the spawn of the child and Instant::now().
TimeoutSpawn ==
    /\ exec.fn = "run_command_with_timeout"
    /\ exec.pc = "spawn"
    /\ exec' = IF exec.env.spawn
               THEN [exec EXCEPT !.pc = "try_wait"]
               ELSE [exec EXCEPT !.pc = "done", !.result = ExecErr("SpawnError", FALSE)]
    /\ UNCHANGED <<tasks, stacks, state_files, task_dirs, last, task_selection,
                   stack_selection, toggles>>

\* The match on child.try_wait() looking at the clock before the status.
TryWaitChecksClockFirst ==
    /\ exec.fn = "run_command_with_timeout"
    /\ exec.pc = "try_wait"
    /\ exec' =
        IF ~exec.env.try_wait
        THEN [exec EXCEPT !.pc = "done", !.result = ExecErr("WaitError", FALSE)]
        ELSE IF exec.elapsed > exec.timeout_secs * PollsPerSec
        THEN [exec EXCEPT !.pc = "done", !.signalled = TRUE,
                          !.result = ExecErr("Timeout", FALSE)]
        ELSE IF Exited(exec)
        THEN [exec EXCEPT !.pc = "done", !.result = ExitResult(exec.env.status)]
        ELSE [exec EXCEPT !.pc = "sleep"]
    /\ UNCHANGED <<tasks, stacks, state_files, task_dirs, last, task_selection,
                   stack_selection, toggles>>

\* One turn of the loop up to the sleep: the match on child.try_wait().
TryWait ==
    /\ exec.fn = "run_command_with_timeout"
    /\ exec.pc = "try_wait"
    /\ exec' =
        IF ~exec.env.try_wait
        THEN [exec EXCEPT !.pc = "done", !.result = ExecErr("WaitError", FALSE)]
        ELSE IF Exited(exec)
        THEN [exec EXCEPT !.pc = "done", !.result = ExitResult(exec.env.status)]
        ELSE IF exec.elapsed > exec.timeout_secs * PollsPerSec
        THEN [exec EXCEPT !.pc = "done", !.signalled = TRUE,
                          !.result = ExecErr("Timeout", FALSE)]
        ELSE [exec EXCEPT !.pc = "sleep"]
    /\ UNCHANGED <<tasks, stacks, state_files, task_dirs, last, task_selection,
                   stack_selection, toggles>>

\* std::thread::sleep(Duration::from_millis(100)): the thread sleeps for one
\* poll interval at least.
Sleep ==
    /\ exec.fn = "run_command_with_timeout"
    /\ exec.pc = "sleep"
    /\ \E d \in 1..(1 + MaxOversleep) :
          exec' = [exec EXCEPT !.pc = "try_wait", !.elapsed = @ + d]
    /\ UNCHANGED <<tasks, stacks, state_files, task_dirs, last, task_selection,
                   stack_selection, toggles>>

\* find_script_in_dir works on a directory tree: a directory holds entries
\* with the names in files and the subdirectories subdirs, in the order
\* fs::read_dir yields them.
MaxDirs == 3

EntryNames == {"install.sh", "playbook.yaml", "main.yml"}

\* The candidate lists of run_bash_script and run_ansible_playbook.
BashCandidates == <<"install.sh">>

PlaybookCandidates ==
    <<"playbook.yml", "playbook.yaml", "main.yml", "main.yaml", "site.yml",
      "site.yaml", "local.yml", "local.yaml", "install.yml", "install.yaml",
      "entrypoint.yml", "entrypoint.yaml">>

RECURSIVE DirTrees(_), DirForests(_)
\* The directory trees of n directories.
DirTrees(n) ==
    IF n = 0
    THEN {}
    ELSE {[files |-> f, subdirs |-> sd] :
            f \in SUBSET EntryNames, sd \in DirForests(n - 1)}

\* The sequences of directory trees of m directories in all.
DirForests(m) ==
    IF m = 0
    THEN {<<>>}
    ELSE UNION {{<<t>> \o rest : t \in DirTrees(k), rest \in DirForests(m - k)} :
                    k \in 1..m}

\* Err(anyhow!("No script found in directory ..."))
ScriptNotFound == [found |-> FALSE, path |-> <<>>, name |-> "none"]

RECURSIVE FirstDirect(_, _, _)
\* for script_name in script_names: the first name, from position k on, whose
\* direct_path exists; 0 when there is none.
FirstDirect(dir, script_names, k) ==
    IF k > Len(script_names) THEN 0
    ELSE IF script_names[k] \in dir.files THEN k
    ELSE FirstDirect(dir, script_names, k + 1)

RECURSIVE FindScriptInDir(_, _), SearchSubdirs(_, _, _)
\* for entry in fs::read_dir(dir): the first subdirectory, from position k on,
\* in which find_script_in_dir finds a script.  A path is the sequence of
\* positions of the subdirectories entered.
SearchSubdirs(dir, script_names, k) ==
    IF k > Len(dir.subdirs)
    THEN ScriptNotFound
    ELSE IF FindScriptInDir(dir.subdirs[k], script_names).found
    THEN [FindScriptInDir(dir.subdirs[k], script_names) EXCEPT !.path = <<k>> \o @]
    ELSE SearchSubdirs(dir, script_names, k + 1)

\* find_script_in_dir looking into the subdirectories before the directory.
FindScriptInDirDeepFirst(dir, script_names) ==
    IF SearchSubdirs(dir, script_names, 1).found
    THEN SearchSubdirs(dir, script_names, 1)
    ELSE IF FirstDirect(dir, script_names, 1) # 0
    THEN [found |-> TRUE, path |-> <<>>,
          name |-> script_names[FirstDirect(dir, script_names, 1)]]
    ELSE ScriptNotFound

\* find_script_in_dir
FindScriptInDir(dir, script_names) ==
    IF FirstDirect(dir, script_names, 1) # 0
    THEN [found |-> TRUE, path |-> <<>>,
          name |-> script_names[FirstDirect(dir, script_names, 1)]]
    ELSE SearchSubdirs(dir, script_names, 1)

\* The calls of find_script_in_dir to follow.
FindCalls ==
    {[fn |-> "find_script_in_dir", pc |-> "call", dir |-> d, script_names |-> l,
      result |-> ScriptNotFound] :
        d \in UNION {DirTrees(n) : n \in 1..MaxDirs},
        l \in {BashCandidates, PlaybookCandidates}}

\* find_script_in_dir runs to its return.
FindReturns ==
    /\ exec.fn = "find_script_in_dir"
    /\ exec.pc = "call"
    /\ exec' = [exec EXCEPT !.pc = "done",
                            !.result = FindScriptInDir(exec.dir, exec.script_names)]
    /\ UNCHANGED <<tasks, stacks, state_files, task_dirs, last, task_selection,
                   stack_selection, toggles>>

\* ========================================================== downloader.rs
\* A file name is the sequence of its characters; a URL is the sequence of
\* the pieces that url.split('/') yields.
FileNames ==
    {<<"a", ".", "c", "o", "n", "f">>,
     <<"a", ".", "z", "i", "p">>,
     <<"a", ".", "t", "a", "r", ".", "g", "z">>,
     <<"a", ".", "t", "g", "z">>,
     <<"a", ".", "t", "x", "t">>,
     <<"a", ".", "s", "h">>,
     <<"a", ".", "t", "a", "r">>,
     <<"a", ".", "g", "z">>,
     <<"a", "t", "g", "z">>,
     <<"a", "z", "i", "p">>,
     <<"c", "o", "n", "f">>,
     <<"a", ".", "z", "i", "p", ".", "c", "o", "n", "f">>,
     <<"a", ".", "c", "o", "n", "f", ".", "z", "i", "p">>,
     <<"a", ".", "z", "i", "p", "?", "v">>,
     <<>>}

Urls == {<<"http:", "", "x", name>> : name \in FileNames}

DotConf == <<".", "c", "o", "n", "f">>

DotZip == <<".", "z", "i", "p">>

DotTarGz == <<".", "t", "a", "r", ".", "g", "z">>

DotTgz == <<".", "t", "g", "z">>

\* str::ends_with
EndsWith(file_name, suffix) ==
    /\ Len(file_name) >= Len(suffix)
    /\ SubSeq(file_name, Len(file_name) - Len(suffix) + 1, Len(file_name)) = suffix

\* url.split('/').last(): split yields one piece at least, so there always
\* is a last piece; it is empty when the URL ends with '/'.
FileNameOfUrl(url) == url[Len(url)]

\* The outcome of download_file: the steps it took, in order, and its error.
Fetched(ok, file_name, error, steps) ==
    [ok |-> ok, file_name |-> file_name, error |-> error, steps |-> steps]

\* download_file has not run.
NoFetch == Fetched(FALSE, <<>>, "none", <<>>)

\* download_file: the file name is the last piece of the URL; the request is
\* sent, then File::create(<dir>/<file name>) and the copy of the body.  With
\* an empty file name the path is the directory itself and File::create fails.
DownloadFile(url, env) ==
    IF ~env.download
    THEN Fetched(FALSE, FileNameOfUrl(url), "HttpError", <<"http_get">>)
    ELSE IF FileNameOfUrl(url) = <<>>
    THEN Fetched(FALSE, FileNameOfUrl(url), "CreateError", <<"http_get", "create_file">>)
    ELSE Fetched(TRUE, FileNameOfUrl(url), "none", <<"http_get", "create_file", "copy">>)

\* The outcome of download_and_extract: the handlings applied to the file, in
\* order, and the path returned; the removals that failed and were logged;
\* the outcome of download_file.
Extracted(ok, handlings, returned) ==
    [ok |-> ok, handlings |-> handlings, returned |-> returned,
     warnings |-> <<>>, fetch |-> NoFetch]

\* extract_archive handing a .tgz file to the copy of the last branch.
ExtractArchiveCopiesTgz(file_name, env) ==
    IF EndsWith(file_name, DotZip)
    THEN Extracted(env.handling, <<"extract_zip">>,
                   IF env.handling THEN "extract_dir" ELSE "none")
    ELSE IF EndsWith(file_name, DotTarGz)
    THEN Extracted(env.handling, <<"extract_tar_gz">>,
                   IF env.handling THEN "extract_dir" ELSE "none")
    ELSE Extracted(env.handling, <<"copy">>,
                   IF env.handling THEN "extract_dir" ELSE "none")

\* extract_archive: by the suffix of the file name, unzip, gunzip and untar,
\* or copy; the extraction directory is returned.
ExtractArchive(file_name, env) ==
    IF EndsWith(file_name, DotZip)
    THEN Extracted(env.handling, <<"extract_zip">>,
                   IF env.handling THEN "extract_dir" ELSE "none")
    ELSE IF EndsWith(file_name, DotTarGz) \/ EndsWith(file_name, DotTgz)
    THEN Extracted(env.handling, <<"extract_tar_gz">>,
                   IF env.handling THEN "extract_dir" ELSE "none")
    ELSE Extracted(env.handling, <<"copy">>,
                   IF env.handling THEN "extract_dir" ELSE "none")

\* The tail of download_and_extract after the download succeeded.
HandleDownloaded(file_name, env) ==
    IF EndsWith(file_name, DotConf)
    THEN Extracted(env.handling, <<"copy">>,
                   IF env.handling THEN "dest_path" ELSE "none")
    ELSE ExtractArchive(file_name, env)

\* The removal of the temporary file and directory returning the error of a
\* removal that fails.
CleanupPropagates(r, env) ==
    IF ~r.ok THEN r
    ELSE IF ~env.remove_file
    THEN [r EXCEPT !.ok = FALSE, !.returned = "none", !.warnings = <<"remove_file">>]
    ELSE IF ~env.remove_dir
    THEN [r EXCEPT !.ok = FALSE, !.returned = "none", !.warnings = <<"remove_dir">>]
    ELSE r

\* After the handling succeeded: fs::remove_file on the downloaded file, and,
\* when the temporary directory is empty after that, fs::remove_dir on it; a
\* removal that fails is logged.  A handling that failed has returned before.
Cleanup(r, env) ==
    IF ~r.ok THEN r
    ELSE IF ~env.remove_file THEN [r EXCEPT !.warnings = <<"remove_file">>]
    ELSE IF ~env.remove_dir THEN [r EXCEPT !.warnings = <<"remove_dir">>]
    ELSE r

\* download_and_extract
DownloadAndExtract(url, env) ==
    IF ~DownloadFile(url, env).ok
    THEN [Extracted(FALSE, <<>>, "none") EXCEPT !.fetch = DownloadFile(url, env)]
    ELSE [Cleanup(HandleDownloaded(DownloadFile(url, env).file_name, env), env)
            EXCEPT !.fetch = DownloadFile(url, env)]

\* The calls of download_and_extract to follow: whether the request works,
\* whether the handling of the file works, and whether the removals of the
\* temporary file and directory work.
ExtractCalls ==
    {[fn |-> "download_and_extract", pc |-> "call", url |-> u, env |-> env,
      result |-> Extracted(FALSE, <<>>, "none")] :
        u \in Urls,
        env \in {e \in [download : BOOLEAN, handling : BOOLEAN,
                         remove_file : BOOLEAN, remove_dir : BOOLEAN] :
                    /\ ~e.download => e.handling
                    /\ ~e.handling => e.remove_file
                    /\ ~e.remove_file => e.remove_dir}}

\* download_and_extract runs to its return.
ExtractReturns ==
    /\ exec.fn = "download_and_extract"
    /\ exec.pc = "call"
    /\ exec' = [exec EXCEPT !.pc = "done",
                            !.result = DownloadAndExtract(exec.url, exec.env)]
    /\ UNCHANGED <<tasks, stacks, state_files, task_dirs, last, task_selection,
                   stack_selection, toggles>>

\* ============================================ load_tasks and load_stacks
MaxEntries == 3

\* values.get(key).and_then(|v| v.as_str()) is None.
NoField == "<no field>"

\* The entries of the "tasks" sequence of a definition document.
RawTaskEntries ==
    {[name |-> "A", type |-> "bash", url |-> "http://x/a.tgz"],
     [name |-> "B", type |-> "M", url |-> "http://x/b.zip"],
     [name |-> NoField, type |-> "bash", url |-> "http://x/a.tgz"],
     [name |-> "A", type |-> NoField, url |-> "http://x/a.tgz"],
     [name |-> "A", type |-> "perl", url |-> "http://x/a.tgz"],
     [name |-> "B", type |-> "Ansible", url |-> NoField]}

\* The entries of the "stacks" sequence of a definition document.
RawStackEntries ==
    {[name |-> "S", tasks |-> <<"A">>],
     [name |-> "T", tasks |-> <<"B", "A">>],
     [name |-> "U", tasks |-> <<>>],
     [name |-> NoField, tasks |-> <<"A">>]}

\* str::to_lowercase on the type strings of the entries.
ToLowercase(str) ==
    CASE str = "M" -> "m"
      [] str = "Ansible" -> "ansible"
      [] OTHER -> str

\* ScriptType::from_str
ScriptTypeFromStr(str) ==
    CASE ToLowercase(str) \in {"bash", "b"} -> [ok |-> TRUE, script_type |-> "Bash"]
      [] ToLowercase(str) \in {"ansible", "a"} -> [ok |-> TRUE, script_type |-> "Ansible"]
      [] ToLowercase(str) \in {"mixed", "m"} -> [ok |-> TRUE, script_type |-> "Mixed"]
      [] OTHER -> [ok |-> FALSE, script_type |-> "none"]

\* Task::from_hashmap: name, type and url are required and the type must be
\* known.
TaskFromHashmap(values) ==
    IF values.name = NoField \/ values.type = NoField THEN [ok |-> FALSE]
    ELSE IF ~ScriptTypeFromStr(values.type).ok THEN [ok |-> FALSE]
    ELSE IF values.url = NoField THEN [ok |-> FALSE]
    ELSE [ok |-> TRUE, name |-> values.name,
          def |-> [name |-> values.name,
                   script_type |-> ScriptTypeFromStr(values.type).script_type,
                   cleanup_command |-> FALSE]]

\* Stack::from_hashmap: name is required.
StackFromHashmap(values) ==
    IF values.name = NoField THEN [ok |-> FALSE]
    ELSE [ok |-> TRUE, name |-> values.name, def |-> values.tasks]

\* from_hashmap of the kind of entry.
FromHashmap(kind, values) ==
    IF kind = "load_tasks" THEN TaskFromHashmap(values) ELSE StackFromHashmap(values)

\* The loops over the documents and over the entries of each giving up at
\* the first entry that does not parse.
RECURSIVE ParseDocsFailsOnBadEntry(_, _, _, _, _)
ParseDocsFailsOnBadEntry(kind, docs, d, k, acc) ==
    IF ~acc.ok \/ d > Len(docs) THEN acc
    ELSE IF k > Len(docs[d]) THEN ParseDocsFailsOnBadEntry(kind, docs, d + 1, 1, acc)
    ELSE IF FromHashmap(kind, docs[d][k]).ok
    THEN ParseDocsFailsOnBadEntry(kind, docs, d, k + 1,
            [acc EXCEPT !.names = Append(@, FromHashmap(kind, docs[d][k]).name),
                        !.defs = Append(@, FromHashmap(kind, docs[d][k]).def)])
    ELSE [acc EXCEPT !.ok = FALSE]

\* for entry in fs::read_dir(dir) / for value in array: the loops over the
\* documents and over the entries of each, from entry k of document d on;
\* an entry that parses is pushed, one that does not is logged.
RECURSIVE ParseDocs(_, _, _, _, _)
ParseDocs(kind, docs, d, k, acc) ==
    IF d > Len(docs) THEN acc
    ELSE IF k > Len(docs[d]) THEN ParseDocs(kind, docs, d + 1, 1, acc)
    ELSE IF FromHashmap(kind, docs[d][k]).ok
    THEN ParseDocs(kind, docs, d, k + 1,
            [acc EXCEPT !.names = Append(@, FromHashmap(kind, docs[d][k]).name),
                        !.defs = Append(@, FromHashmap(kind, docs[d][k]).def)])
    ELSE ParseDocs(kind, docs, d, k + 1, acc)

\* Nothing is loaded yet.
NothingLoaded == [ok |-> TRUE, names |-> <<>>, defs |-> <<>>]

\* What load_tasks / load_stacks return for the documents: the names of the
\* entries loaded and the collection.
LoadFrom(kind, docs, ts, files) ==
    IF ~ParseDocs(kind, docs, 1, 1, NothingLoaded).ok
    THEN [ok |-> FALSE, names |-> <<>>, items |-> <<>>]
    ELSE [ok |-> TRUE,
          names |-> ParseDocs(kind, docs, 1, 1, NothingLoaded).names,
          items |-> IF kind = "load_tasks"
                    THEN LoadTasks(ParseDocs(kind, docs, 1, 1, NothingLoaded).defs, files)
                    ELSE LoadStacks(ParseDocs(kind, docs, 1, 1, NothingLoaded).defs,
                                    ts, files)]

RECURSIVE Splits(_)
\* The ways to cut a sequence of entries into documents that are not empty.
Splits(entries) ==
    IF entries = <<>>
    THEN {<<>>}
    ELSE UNION {{<<SubSeq(entries, 1, k)>> \o rest :
                    rest \in Splits(SubSeq(entries, k + 1, Len(entries)))} :
                        k \in 1..Len(entries)}

\* The calls of load_tasks and load_stacks to follow.
LoadCalls ==
    {[fn |-> "load_tasks", pc |-> "call", docs |-> docs,
      result |-> [ok |-> FALSE, names |-> <<>>, items |-> <<>>]] :
        docs \in UNION {Splits(e) : e \in SeqsUpTo(RawTaskEntries, MaxEntries)}}
    \cup
    {[fn |-> "load_stacks", pc |-> "call", docs |-> docs,
      result |-> [ok |-> FALSE, names |-> <<>>, items |-> <<>>]] :
        docs \in UNION {Splits(e) : e \in SeqsUpTo(RawStackEntries, MaxEntries)}}

\* load_tasks or load_stacks runs to its return; the state directory holds
\* no state file of A or B.
LoadReturns ==
    /\ exec.fn \in {"load_tasks", "load_stacks"}
    /\ exec.pc = "call"
    /\ exec' = [exec EXCEPT
                 !.pc = "done",
                 !.result = LoadFrom(exec.fn, exec.docs, tasks,
                                     [n \in TaskNameSet |-> Absent])]
    /\ UNCHANGED <<tasks, stacks, state_files, task_dirs, last, task_selection,
                   stack_selection, toggles>>

\* ------------------------------------------------- the functions on their own
\* One call of a function of executor.rs or downloader.rs or of a loader, over every
\* argument and every behaviour of the system within the bounds; the
\* application holds one bash task and one stack with that task.
ExecInit ==
    /\ state_files = [n \in {"A"} |-> Absent]
    /\ task_dirs = {}
    /\ tasks = LoadTasks(<<[name |-> "A", script_type |-> "Bash",
                            cleanup_command |-> FALSE]>>, state_files)
    /\ stacks = LoadStacks(<<<<"A">>>>, tasks, state_files)
    /\ last = Idle
    /\ task_selection = {}
    /\ stack_selection = {}
    /\ toggles = NoToggles(tasks, stacks)
    /\ exec \in RunnerCalls \cup TimeoutCalls \cup FindCalls \cup ExtractCalls
                \cup LoadCalls

ExecNext ==
    \/ RunnerReturns
    \/ TimeoutSpawn
    \/ TryWait
    \/ Sleep
    \/ FindReturns
    \/ ExtractReturns
    \/ LoadReturns

ExecSpec == ExecInit /\ [][ExecNext]_vars

\* The thread that runs run_command_with_timeout keeps running.
ExecLiveSpec ==
    ExecSpec /\ WF_vars(TimeoutSpawn) /\ WF_vars(TryWait) /\ WF_vars(Sleep)

\* ====================================================== the shared mutexes
\* The code paths that hold more than one of the mutexes of the
\* configuration, the Task collection and the Stack collection.
LockPaths == {"get_statistics", "stack_on_select", "stack_handler", "task_handler"}

\* The order in which a path locks the mutexes; every guard lives until the
\* end of the path.
\*   get_statistics      tasks.lock() then stacks.lock()
\*   stack_on_select     stacks_clone2.lock() then tasks_clone.lock()
\*   stack_handler       stacks.lock(), config.lock(), tasks.lock()
\*   task_handler        tasks.lock() then config.lock()
AcquireOrder(path) ==
    CASE path = "get_statistics" -> <<"tasks", "stacks">>
      [] path = "stack_on_select" -> <<"stacks", "tasks">>
      [] path = "stack_handler" -> <<"stacks", "config", "tasks">>
      [] path = "task_handler" -> <<"tasks", "config">>

\* Two threads, each running one of the paths.
Threads == {"t1", "t2"}

\* The guards a thread holds: those of the first pc locks of its path.
Guards(th) == {AcquireOrder(th.path)[k] : k \in 1..th.pc}

\* The mutex a thread is about to lock.
Wanted(th) == AcquireOrder(th.path)[th.pc + 1]

\* The thread is inside its path and has a mutex left to lock.
Locking(th) == ~th.done /\ th.pc < Len(AcquireOrder(th.path))

\* The threads enter their paths.
LockCalls ==
    {[fn |-> "locks", thread |-> th] :
        th \in [Threads -> [path : LockPaths, pc : {0}, done : {FALSE}]]}

\* Mutex::lock: the thread gets the guard when no other thread holds the
\* mutex, and blocks until then.
LockAcquire ==
    /\ exec.fn = "locks"
    /\ \E t \in Threads :
        /\ Locking(exec.thread[t])
        /\ \A u \in Threads \ {t} : Wanted(exec.thread[t]) \notin Guards(exec.thread[u])
        /\ exec' = [exec EXCEPT !.thread[t].pc = @ + 1]
    /\ UNCHANGED <<tasks, stacks, state_files, task_dirs, last, task_selection,
                   stack_selection, toggles>>

\* The end of the path: the guards go out of scope.
LockRelease ==
    /\ exec.fn = "locks"
    /\ \E t \in Threads :
        /\ ~exec.thread[t].done
        /\ exec.thread[t].pc = Len(AcquireOrder(exec.thread[t].path))
        /\ exec' = [exec EXCEPT !.thread[t].pc = 0, !.thread[t].done = TRUE]
    /\ UNCHANGED <<tasks, stacks, state_files, task_dirs, last, task_selection,
                   stack_selection, toggles>>

LockInit ==
    /\ state_files = [n \in {"A"} |-> Absent]
    /\ task_dirs = {}
    /\ tasks = LoadTasks(<<[name |-> "A", script_type |-> "Bash",
                            cleanup_command |-> FALSE]>>, state_files)
    /\ stacks = LoadStacks(<<<<"A">>>>, tasks, state_files)
    /\ last = Idle
    /\ task_selection = {}
    /\ stack_selection = {}
    /\ toggles = NoToggles(tasks, stacks)
    /\ exec \in LockCalls

LockNext ==
    \/ LockAcquire
    \/ LockRelease

LockSpec == LockInit /\ [][LockNext]_vars

\* ================================================================ claims
\* The Task method calls reported by the handler that ran last.
Calls == {last.calls[k] : k \in 1..Len(last.calls)}

\* The calls that reached a Task (the member name matched one).
TaskCalls == {c \in Calls : c.index # 0}

\* "A state file with content 'installed' exists": the content, trimmed.
MarkedInstalled(files, name) ==
    files[name] # Absent /\ Trim(files[name]) = "installed"

InstallFailed(c) ==
    c.op = "install" /\ c.result \in {"DownloadError", "ExecutionError"}

\* C1: whenever Task.install returns Ok the task's installed flag is true and
\* its state file exists with content "installed"; whenever Task.uninstall
\* returns Ok the flag is false and the state file is absent.  Stated for
\* every call (from a button or from a Stack loop) and, for the task view,
\* on the collection and the state directory themselves.
C1_InstallUninstallPostcondition ==
    /\ \A c \in TaskCalls :
        /\ (c.op = "install" /\ c.result = "Ok")
              => c.installed_after /\ c.files_after[c.name] = "installed"
        /\ (c.op = "uninstall" /\ c.result = "Ok")
              => ~c.installed_after /\ c.files_after[c.name] = Absent
    /\ (last.view = "task" /\ last.op = "install" /\ last.result = "Ok")
          => /\ tasks[last.index].installed
             /\ state_files[tasks[last.index].name] = "installed"
    /\ (last.view = "task" /\ last.op = "uninstall" /\ last.result = "Ok")
          => /\ ~tasks[last.index].installed
             /\ state_files[tasks[last.index].name] = Absent

\* C1 witness: a Stack.uninstall in which one member's uninstall succeeded on
\* a state file written by hand, after an install had succeeded on a Task
\* whose directory is therefore on disk.
C1_Witness ==
    /\ last.view = "stack" /\ last.op = "uninstall"
    /\ \E c \in TaskCalls :
        /\ c.result = "Ok" /\ c.files_before[c.name] = "installed\n"
    /\ \E i \in 1..Len(tasks) :
        tasks[i].installed /\ tasks[i].local_path /\ state_files[tasks[i].name] = "installed"

\* C2 (as claimed): in every reachable state every Task with installed = true
\* has a state file for its name whose content is "installed".
C2_InstalledImpliesStateFile ==
    \A i \in 1..Len(tasks) :
        tasks[i].installed => MarkedInstalled(state_files, tasks[i].name)

\* C3 (as claimed): whenever Task.install fails because the download or the
\* install phase failed, the Task is NotInstalled afterwards: flag false and
\* no state file with content "installed".
C3_FailedInstallLeavesNotInstalled ==
    \A c \in TaskCalls :
        InstallFailed(c)
            => ~c.installed_after /\ ~MarkedInstalled(c.files_after, c.name)

\* C3 (amended): a Task.install that fails because the download or the
\* install phase failed leaves the Task's installed flag and the state
\* directory exactly as they were before the call.
C3_FailedInstallChangesNothing ==
    \A c \in TaskCalls :
        InstallFailed(c)
            => /\ c.installed_after = c.installed_before
               /\ c.files_after = c.files_before

\* C3 witness: both kinds of failure happened, one of them on a Task that was
\* not installed.
C3_Witness ==
    /\ \E c \in TaskCalls :
        /\ InstallFailed(c) /\ c.result = "ExecutionError"
        /\ ~c.installed_before /\ ~MarkedInstalled(c.files_before, c.name)
    /\ \E c \in TaskCalls : InstallFailed(c) /\ c.result = "DownloadError"

\* C4: Task.uninstall on a Task that is not installed (no state file with
\* content "installed") fails with the not-installed error before any
\* download or command / phase execution, and leaves the state directory
\* unchanged.
C4_UninstallNotInstalled ==
    \A c \in TaskCalls :
        (c.op = "uninstall" /\ ~MarkedInstalled(c.files_before, c.name))
            => /\ c.result = "NotInstalled"
               /\ c.steps = <<>>
               /\ c.files_after = c.files_before

\* C4 witness: uninstall reached a Task whose state file exists with another
\* content.
C4_Witness ==
    \E c \in TaskCalls :
        /\ c.op = "uninstall" /\ c.result = "NotInstalled"
        /\ c.files_before[c.name] = "removed"

\* C5: Task.reset and Task.remediate fail with the not-installed error when
\* the Task is not installed (no state file with content "installed"), and
\* whether they succeed or fail the state directory is the same before and
\* after: per call, and over the whole handler.
C5_MaintainKeepsStateFile ==
    [][last'.op \in {"reset", "remediate"}
          => /\ state_files' = state_files
             /\ \A k \in 1..Len(last'.calls) :
                  LET c == last'.calls[k]
                  IN  /\ c.files_after = c.files_before
                      /\ (c.index # 0 /\ ~MarkedInstalled(c.files_before, c.name))
                            => c.result = "NotInstalled" /\ c.steps = <<>>]_vars

\* C5 witness: a reset that succeeded on a state file written by hand, next
\* to a member that is not installed.
C5_Witness ==
    /\ last.op \in {"reset", "remediate"}
    /\ \E c \in TaskCalls : c.result = "Ok" /\ c.files_before[c.name] = "installed\n"
    /\ \E c \in TaskCalls : c.result = "NotInstalled"

\* The member names in the order the last handler visited them.
VisitedNames == [k \in 1..Len(last.calls) |-> last.calls[k].name]

\* The number of entries of task_names that resolve to a Task (the first one
\* of that name) whose installed flag is true.
InstalledMembers(st) ==
    {k \in 1..Len(st.task_names) :
        \E i \in 1..Len(tasks) :
            /\ tasks[i].name = st.task_names[k]
            /\ \A j \in 1..Len(tasks) : tasks[j].name = st.task_names[k] => i <= j
            /\ tasks[i].installed}

\* The classification of a Stack from the current installed flags.
IsFully(st) ==
    st.task_names # <<>> /\ Cardinality(InstalledMembers(st)) = Len(st.task_names)

IsPartially(st) ==
    /\ 0 < Cardinality(InstalledMembers(st))
    /\ Cardinality(InstalledMembers(st)) < Len(st.task_names)

\* C6: in every reachable state, for every Stack, fully_installed and
\* partially_installed are never both true, and both are false when
\* task_names is empty.
C6_FlagsExclusive ==
    \A s \in 1..Len(stacks) :
        /\ ~(stacks[s].fully_installed /\ stacks[s].partially_installed)
        /\ stacks[s].task_names = <<>>
              => ~stacks[s].fully_installed /\ ~stacks[s].partially_installed

\* C6 witness: a Stack that a Stack.install has just made fully installed.
C6_Witness ==
    /\ last.view = "stack" /\ last.op = "install"
    /\ stacks[last.index].fully_installed
    /\ Len(stacks[last.index].task_names) = 2
    /\ \E c \in TaskCalls : ~c.installed_before

\* C7: immediately after check_installation_status on a Stack with non-empty
\* task_names (Stack.install and Stack.uninstall end with it),
\* fully_installed holds exactly when installed_count = len(task_names) and
\* partially_installed exactly when 0 < installed_count < len(task_names);
\* names that are not found count as not installed.
C7_FlagsMatchCount ==
    (last.view = "stack" /\ last.op \in {"install", "uninstall"}
        /\ stacks[last.index].task_names # <<>>)
        => /\ stacks[last.index].fully_installed = IsFully(stacks[last.index])
           /\ stacks[last.index].partially_installed = IsPartially(stacks[last.index])

\* C7 witness: the recomputation found one of two members installed, the
\* other one found but not installed.
C7_Witness ==
    /\ last.view = "stack" /\ last.op \in {"install", "uninstall"}
    /\ stacks[last.index].partially_installed
    /\ Len(stacks[last.index].task_names) = 2
    /\ \A c \in Calls : c.index # 0
    /\ \E c \in Calls : c.installed_after
    /\ \E c \in Calls : ~c.installed_after

\* C8 (as claimed): after every completed lifecycle operation, from the task
\* view or on any Stack, the derived flags of every Stack equal the
\* classification computed from the current installed flags of its members.
C8_FlagsNeverStale ==
    last # Idle
        => \A s \in 1..Len(stacks) :
              /\ stacks[s].fully_installed = IsFully(stacks[s])
              /\ stacks[s].partially_installed = IsPartially(stacks[s])

\* C9: Stack.install visits the entries of task_names in declared order and
\* every entry exactly once; a failed or missing member does not stop the
\* loop.
C9_InstallVisitsInOrder ==
    (last.view = "stack" /\ last.op = "install")
        => VisitedNames = stacks[last.index].task_names

\* C9 witness: the first of two different members failed and the second one
\* was installed all the same.
C9_Witness ==
    /\ last.view = "stack" /\ last.op = "install"
    /\ Len(last.calls) = 2
    /\ last.calls[1].name # last.calls[2].name
    /\ last.calls[1].result # "Ok"
    /\ last.calls[2].result = "Ok"

\* C10: Stack.uninstall visits the entries of task_names in exactly the
\* reverse of the declared order, in which Stack.install visits them, every
\* entry exactly once even when a member's uninstall fails.
C10_UninstallVisitsInReverse ==
    (last.view = "stack" /\ last.op = "uninstall")
        => /\ Len(VisitedNames) = Len(stacks[last.index].task_names)
           /\ \A k \in 1..Len(VisitedNames) :
                VisitedNames[k] =
                    stacks[last.index].task_names[Len(VisitedNames) + 1 - k]

\* C10 witness: the last of two different members, visited first, failed and
\* the first one was uninstalled after it.
C10_Witness ==
    /\ last.view = "stack" /\ last.op = "uninstall"
    /\ Len(last.calls) = 2
    /\ last.calls[1].name = stacks[last.index].task_names[2]
    /\ last.calls[1].name # last.calls[2].name
    /\ last.calls[1].result # "Ok"
    /\ last.calls[2].result = "Ok"

\* A call that made its Stack operation fail: the member was missing or its
\* Task operation returned an error.
CallFailed(c) == c.result # "Ok"

\* No Task of the collection has this name.
IsMissing(task_name) == \A i \in 1..Len(tasks) : tasks[i].name # task_name

\* C11: a Stack operation returns an error exactly when a member was missing
\* or its Task operation failed; the error lists exactly the failed members,
\* in the order they failed; a member whose operation succeeded keeps its new
\* state (installed after install, removed after uninstall) although the
\* Stack operation failed.
C11_StackErrorAggregates ==
    last.view = "stack"
        => /\ (last.result = "StackError") = (\E c \in Calls : CallFailed(c))
           /\ (last.result = "Ok") = (\A c \in Calls : ~CallFailed(c))
           /\ LET bad == SelectSeq(last.calls, CallFailed)
              IN  last.failed = [k \in 1..Len(bad) |-> bad[k].name]
           /\ \A c \in Calls :
                (c.result = "Ok" /\ last.op = "install")
                    => /\ tasks[c.index].installed
                       /\ MarkedInstalled(state_files, c.name)
           /\ \A c \in Calls :
                (c.result = "Ok" /\ last.op = "uninstall")
                    => /\ ~tasks[c.index].installed
                       /\ state_files[c.name] = Absent

\* C11 witness: a Stack.install that failed on one member and installed the
\* other one, which was not installed before.
C11_Witness ==
    /\ last.view = "stack" /\ last.op = "install" /\ last.result = "StackError"
    /\ Len(last.failed) = 1
    /\ \E c \in Calls : c.result = "Ok" /\ ~c.installed_before /\ c.installed_after
    /\ \E c \in Calls : c.result \in {"DownloadError", "ExecutionError"}

\* C12: when task_names holds a name that no Task has, a Stack operation
\* records that name as failed and returns an error, and still calls the Task
\* operation of every other member; such a Stack is never fully_installed.
C12_MissingMemberFails ==
    /\ \A s \in 1..Len(stacks) :
          (\E k \in 1..Len(stacks[s].task_names) : IsMissing(stacks[s].task_names[k]))
              => ~stacks[s].fully_installed
    /\ (last.view = "stack"
          /\ \E k \in 1..Len(stacks[last.index].task_names) :
                IsMissing(stacks[last.index].task_names[k]))
        => /\ last.result = "StackError"
           /\ Len(last.calls) = Len(stacks[last.index].task_names)
           /\ \A c \in Calls :
                IF IsMissing(c.name)
                THEN c.result = "TaskNotFound"
                       /\ \E j \in 1..Len(last.failed) : last.failed[j] = c.name
                ELSE c.index # 0 /\ c.result # "TaskNotFound"
           /\ \A k \in 1..Len(stacks[last.index].task_names) :
                \E c \in Calls : c.name = stacks[last.index].task_names[k]

\* C12 witness: a Stack.remediate over a missing member and a member whose
\* remediate succeeded.
C12_Witness ==
    /\ last.view = "stack" /\ last.op = "remediate"
    /\ \E c \in Calls : c.result = "TaskNotFound"
    /\ \E c \in Calls : c.result = "Ok"
    /\ stacks[last.index].partially_installed

\* C13: a step that runs Stack.reset or Stack.remediate visits task_names in
\* declared order and leaves fully_installed and partially_installed of the
\* Stack (of every Stack) as they were before the call, whether the call
\* succeeds or fails.
C13_MaintainKeepsFlags ==
    [][(last'.view = "stack" /\ last'.op \in {"reset", "remediate"})
          => /\ stacks' = stacks
             /\ [k \in 1..Len(last'.calls) |-> last'.calls[k].name]
                    = stacks[last'.index].task_names]_vars

\* C13 witness: a failed Stack.reset over two members of a Stack whose
\* fully_installed flag was out of date and stayed so.
C13_Witness ==
    /\ last.view = "stack" /\ last.op = "reset" /\ last.result = "StackError"
    /\ Len(last.calls) = 2
    /\ last.calls[1].name # last.calls[2].name
    /\ stacks[last.index].fully_installed
    /\ ~IsFully(stacks[last.index])

\* C14: check_installation_status changes nothing but the two flags of the
\* Stack it is called on (no Task field, no state file, not task_names), and
\* calling it a second time on the same Task collection gives the flags of
\* the first call; right after Stack.install and Stack.uninstall, which end
\* with it, another call changes nothing at all.
C14_CheckIsPureRecomputation ==
    \A s \in 1..Len(stacks) :
        LET once == StackCheckInstallationStatus(stacks[s], tasks, state_files)
            twice == StackCheckInstallationStatus(once.stack, once.tasks, once.files)
        IN  /\ once.tasks = tasks
            /\ once.files = state_files
            /\ once.stack.task_names = stacks[s].task_names
            /\ twice = once
            /\ (last.view = "stack" /\ last.op \in {"install", "uninstall"}
                    /\ last.index = s)
                  => once.stack = stacks[s]

\* C14 witness: a Stack whose flags a call would change, while a Task's
\* installed flag differs from what its state file says.
C14_Witness ==
    /\ \E s \in 1..Len(stacks) :
          StackCheckInstallationStatus(stacks[s], tasks, state_files).stack # stacks[s]
    /\ \E i \in 1..Len(tasks) :
          tasks[i].installed # CheckInstalled(tasks[i], state_files)

\* A step that ran a script or a playbook.
IsRunnerStep(step) == step[1] \in {"ansible", "bash"}

\* The runs of the kind strategy during one call, in the order they were made.
RunnerSteps(c) == SelectSeq(c.steps, IsRunnerStep)

\* The calls on a Mixed task that go through the kind strategy: install,
\* reset, remediate, and uninstall without a cleanup command.
MixedCalls ==
    {c \in TaskCalls :
        /\ tasks[c.index].script_type = "Mixed"
        /\ ~(c.op = "uninstall" /\ tasks[c.index].cleanup_command)}

\* C15: in the execution step of install, reset, remediate and script-driven
\* uninstall of a Mixed task, the playbook is run first with the phase of the
\* operation; the script is run, with the same phase, exactly when the
\* playbook failed; the execution fails exactly when both failed.
C15_MixedFallsBackToBash ==
    \A c \in MixedCalls :
        LET runs == RunnerSteps(c)
        IN  /\ Len(runs) <= 2
            /\ runs = <<>> => c.result \in {"NotInstalled", "DownloadError"}
            /\ runs # <<>>
                => /\ runs[1][1] = "ansible" /\ runs[1][2] = c.op
                   /\ (Len(runs) = 2) = ~runs[1][3]
                   /\ Len(runs) = 2 => runs[2][1] = "bash" /\ runs[2][2] = c.op
                   /\ (c.result # "Ok") = (Len(runs) = 2 /\ ~runs[2][3])
                   /\ c.result \in {"Ok", "ExecutionError"}

\* C15 witness: a script-driven uninstall of a Mixed task whose playbook
\* failed and whose script then succeeded.
C15_Witness ==
    \E c \in MixedCalls :
        /\ c.op = "uninstall" /\ c.result = "Ok"
        /\ Len(RunnerSteps(c)) = 2

\* A step that ran the literal cleanup command.
IsCommandStep(step) == step[1] = "command"

\* C16: the execution step of Task.uninstall on a task with a cleanup_command
\* runs that command once and no script or playbook, whatever the script
\* kind, and uninstall succeeds exactly when the command does.
C16_CleanupCommandOnly ==
    \A c \in TaskCalls :
        (c.op = "uninstall" /\ tasks[c.index].cleanup_command)
            => LET cmds == SelectSeq(c.steps, IsCommandStep)
               IN  /\ RunnerSteps(c) = <<>>
                   /\ Len(cmds) <= 1
                   /\ cmds = <<>> => c.result \in {"NotInstalled", "DownloadError"}
                   /\ cmds # <<>>
                        => /\ (c.result = "Ok") = cmds[1][3]
                           /\ c.result \in {"Ok", "ExecutionError"}

\* C16 witness: the cleanup command of a Mixed task failed and the uninstall
\* failed with it.
C16_Witness ==
    \E c \in TaskCalls :
        /\ c.op = "uninstall" /\ tasks[c.index].cleanup_command
        /\ tasks[c.index].script_type = "Mixed"
        /\ c.result = "ExecutionError"
        /\ tasks[c.index].installed

\* ------------------------------------------------------- claims on batches
\* The dialog on screen is the result of a batch loop.
IsBatchReport ==
    /\ last.view \in {"task_batch", "stack_batch"}
    /\ last.result # "NothingSelected"

\* The selection the batch on screen ran over.
BatchSelection ==
    IF last.view = "task_batch" THEN task_selection ELSE stack_selection

\* The positions of the units the operation did not apply to.
InapplicableUnits ==
    {k \in 1..Len(last.units) : ~last.units[k].applicable}

\* C17: after a batch, success_count plus the number of error entries plus the
\* number of units skipped as inapplicable equals the number of selected
\* units.
C17_TallyAddsUp ==
    IsBatchReport =>
        last.success_count + Len(last.errors) + Cardinality(InapplicableUnits)
            = Cardinality(BatchSelection)

\* C18: a unit the operation does not apply to is skipped without the
\* operation being invoked, and adds neither to success_count nor to the
\* error list.
C18_InapplicableCountsNothing ==
    IsBatchReport =>
        /\ \A k \in InapplicableUnits :
              /\ ~last.units[k].invoked
              /\ ~last.units[k].counted_success
              /\ ~last.units[k].counted_error
        /\ last.success_count =
              Cardinality({k \in 1..Len(last.units) : last.units[k].result = "Ok"})

\* C19: a batch visits the selected units in ascending index order, each
\* exactly once; a unit that fails does not end the loop, and the error list
\* holds exactly the failed units, in ascending index order.
C19_AscendingOnceNoAbort ==
    IsBatchReport =>
        /\ Len(last.units) = Cardinality(BatchSelection)
        /\ {last.units[k].index : k \in 1..Len(last.units)} = BatchSelection
        /\ \A j, k \in 1..Len(last.units) :
              j < k => last.units[j].index < last.units[k].index
        /\ \A j, k \in 1..Len(last.errors) :
              j < k => last.errors[j] < last.errors[k]
        /\ {last.errors[k] : k \in 1..Len(last.errors)} =
              {last.units[k].index : k \in
                  {u \in 1..Len(last.units) :
                      /\ last.units[u].invoked
                      /\ last.units[u].result # "Ok"}}

\* A batch over two selected tasks whose first unit failed and whose second
\* unit was then invoked and succeeded.
C19_Witness ==
    /\ IsBatchReport
    /\ last.view = "task_batch"
    /\ Len(last.units) = 2
    /\ last.units[1].invoked /\ last.units[1].result # "Ok"
    /\ last.units[2].invoked /\ last.units[2].result = "Ok"
    /\ last.errors = <<last.units[1].index>>

\* C21: the selection is a toggle-set: in both views a position is selected
\* exactly when toggle was called on it an odd number of times since the last
\* clear (so a second toggle of a position restores the selection, a toggle
\* touches no other position, and clear leaves nothing selected).
C21_SelectionIsToggleSet ==
    /\ \A i \in 1..Len(tasks) :
          IsSelected(task_selection, i) <=> toggles.task[i] = 1
    /\ \A i \in 1..Len(stacks) :
          IsSelected(stack_selection, i) <=> toggles.stack[i] = 1

\* Of two tasks one was toggled an odd number of times and is selected, the
\* other an even number of times and is not.
C21_Witness ==
    /\ Len(tasks) = 2
    /\ toggles.task[1] = 0 /\ ~IsSelected(task_selection, 1)
    /\ toggles.task[2] = 1 /\ IsSelected(task_selection, 2)

\* A download or a subprocess of a lifecycle operation: the fetch of the
\* payload, a script, a playbook or a cleanup command.
IsLongStep(step) == step[1] \in {"fetch", "ansible", "bash", "command"}

\* C22: no mutex of the shared Task collection, Stack collection or
\* configuration is held while a download or a subprocess of a lifecycle
\* operation runs.
C22_NoLockAcrossSubprocess ==
    (/\ last # Idle
     /\ \E k \in 1..Len(last.calls) :
            \E j \in 1..Len(last.calls[k].steps) : IsLongStep(last.calls[k].steps[j]))
        => last.held = {}

\* C23: after load_tasks no two Tasks of the collection have the same name,
\* whatever the definition documents contain.
C23_TaskNamesUnique ==
    \A i, j \in 1..Len(tasks) : i # j => tasks[i].name # tasks[j].name

\* The fetch of the payload.
IsFetchStep(step) == step[1] = "fetch"

\* The calls of Task.install on a Task that is installed and whose payload is
\* materialized, with an install phase that succeeds.
Reinstalls ==
    {c \in TaskCalls :
        /\ c.op = "install"
        /\ c.installed_before
        /\ c.materialized
        /\ RunnerSteps(c) # <<>> => RunnerSteps(c)[Len(RunnerSteps(c))][3]}

\* C24: Task.install on a Task that is already installed, with its payload
\* materialized and an install phase that succeeds, returns Ok without
\* fetching, and leaves the Task installed with state file content
\* 'installed'.
C24_ReinstallSucceeds ==
    \A c \in Reinstalls :
        /\ c.result = "Ok"
        /\ SelectSeq(c.steps, IsFetchStep) = <<>>
        /\ RunnerSteps(c) # <<>>
        /\ c.installed_after
        /\ c.files_after[c.name] = "installed"

\* Task.install ran on an installed Task with materialized payload, as a
\* member of a Stack that is being installed.
C24_Witness ==
    \E c \in Reinstalls : c.result = "Ok" /\ last.view = "stack"

\* The write of the state file.
IsWriteStateStep(step) == step[1] = "write_state"

\* The place of a step in Task.install: materialize the payload, execute the
\* phase, write the state file.
InstallStage(step) ==
    IF IsFetchStep(step) THEN 1 ELSE IF IsRunnerStep(step) THEN 2 ELSE 3

\* The calls of Task.install.
InstallCalls == {c \in TaskCalls : c.op = "install"}

\* C27: within one Task.install the steps happen in the order materialize,
\* execute, write state: the phase runs only after the download succeeded (a
\* failed download means no phase is run), and the state file is written, and
\* installed set, only after the phase succeeded.
C27_InstallStepOrder ==
    \A c \in InstallCalls :
        /\ \A j, k \in 1..Len(c.steps) :
              j < k => InstallStage(c.steps[j]) <= InstallStage(c.steps[k])
        /\ RunnerSteps(c) # <<>> =>
              \A j \in 1..Len(c.steps) : IsFetchStep(c.steps[j]) => c.steps[j][3]
        /\ SelectSeq(c.steps, IsWriteStateStep) # <<>> =>
              /\ RunnerSteps(c) # <<>>
              /\ RunnerSteps(c)[Len(RunnerSteps(c))][3]
        /\ (c.installed_after # c.installed_before \/ c.files_after # c.files_before) =>
              /\ Len(SelectSeq(c.steps, IsWriteStateStep)) = 1
              /\ c.installed_after

\* An install that fetched the payload, ran the phase and wrote the state
\* file.
C27_Witness ==
    \E c \in InstallCalls :
        /\ Len(c.steps) = 3
        /\ IsFetchStep(c.steps[1]) /\ IsRunnerStep(c.steps[2])
        /\ IsWriteStateStep(c.steps[3])
        /\ c.result = "Ok"

\* The fetches of the payload during one call.
Fetches(c) == SelectSeq(c.steps, IsFetchStep)

\* The calls that reached Task.download: every call but those that returned
\* because the Task is not installed.
DownloadCalls == {c \in TaskCalls : c.result # "NotInstalled"}

\* C28: Task.download performs no fetch when local_path is set and the path
\* exists; otherwise it fetches once, and local_path is set only if the fetch
\* succeeded: a failed fetch leaves local_path as it was.
C28_DownloadShortCircuits ==
    \A c \in DownloadCalls :
        IF c.materialized
        THEN /\ Fetches(c) = <<>>
             /\ c.local_path_after = c.local_path_before
        ELSE /\ Len(Fetches(c)) = 1
             /\ Fetches(c)[1][3] => c.local_path_after
             /\ ~Fetches(c)[1][3] =>
                    /\ c.local_path_after = c.local_path_before
                    /\ c.result = "DownloadError"

\* One handler made a call on a Task with materialized payload, which did not
\* fetch, and a call on a Task without, whose fetch failed.
C28_Witness ==
    \E c1, c2 \in DownloadCalls :
        /\ c1.materialized /\ Fetches(c1) = <<>>
        /\ ~c2.materialized /\ Fetches(c2) = <<<<"fetch", c2.name, FALSE>>>>
        /\ ~c2.local_path_after

\* ------------------------------------------- claims on executor.rs functions
\* run_command_with_timeout has returned.
TimeoutDone == exec.fn = "run_command_with_timeout" /\ exec.pc = "done"

\* What run_command_with_timeout returned is right for what the child did by
\* the last poll: the result of its exit status when it had exited, else a
\* timeout error, with a termination signal sent, at the first poll taken
\* after timeout_secs.
TimeoutResultRight ==
    (TimeoutDone /\ exec.env.spawn /\ exec.env.try_wait) =>
        IF exec.env.exits /\ exec.env.at <= exec.elapsed
        THEN /\ exec.result.ok <=>
                    (exec.env.status.has_code /\ exec.env.status.code = 0)
             /\ exec.result.error \in {"none", "ExitCode"}
             /\ ~exec.signalled
        ELSE /\ exec.result.error = "Timeout"
             /\ ~exec.result.ok
             /\ exec.signalled
             /\ exec.elapsed > exec.timeout_secs * PollsPerSec
             /\ exec.elapsed <= exec.timeout_secs * PollsPerSec + 1 + MaxOversleep

\* C25: run_command_with_timeout always returns: Ok for a child that exited
\* with status zero, an execution error for one that exited with another
\* status, and a timeout error, after a termination signal, for a child that
\* is still running at a poll taken after the timeout; it never blocks on a
\* child that does not exit.
C25_TimeoutAlwaysReturns ==
    /\ []TimeoutResultRight
    /\ (exec.fn = "run_command_with_timeout") ~> TimeoutDone

\* run_command_with_timeout returned a timeout error on a child that never
\* exits.
C25_Witness ==
    /\ TimeoutDone
    /\ ~exec.env.exits
    /\ exec.signalled
    /\ exec.result.error = "Timeout"

\* A runner has returned.
RunnerDone == exec.fn \in Runners /\ exec.pc = "done"

\* C26: every runner (bash script, ansible playbook, literal command) returns
\* Ok exactly when the child exited with status zero; a child that ended
\* otherwise yields an error that carries its exit code, or -1 when it has
\* none.
C26_OkIffExitZero ==
    RunnerDone =>
        /\ exec.result.child <=>
              /\ exec.env.is_dir => exec.env.found
              /\ exec.env.exists /\ exec.env.chmod
              /\ exec.env.spawn /\ exec.env.wait
        /\ exec.result.ok <=>
              /\ exec.result.child
              /\ exec.env.status.has_code
              /\ exec.env.status.code = 0
        /\ (exec.result.child /\ ~exec.result.ok) =>
              /\ exec.result.error = "ExitCode"
              /\ exec.result.code =
                    IF exec.env.status.has_code THEN exec.env.status.code ELSE -1

\* run_bash_script returned the error with code -1 for a script that a signal
\* killed.
C26_Witness ==
    /\ RunnerDone
    /\ exec.fn = "run_bash_script"
    /\ exec.result.child
    /\ ~exec.env.status.has_code
    /\ exec.result.error = "ExitCode"
    /\ exec.result.code = -1

RECURSIVE DirPaths(_)
\* The paths of the directories of a tree, the tree's own being <<>>.
DirPaths(dir) ==
    {<<>>} \cup UNION {{<<k>> \o p : p \in DirPaths(dir.subdirs[k])} :
                            k \in 1..Len(dir.subdirs)}

RECURSIVE DirAt(_, _)
\* The directory at a path of the tree.
DirAt(dir, path) ==
    IF path = <<>> THEN dir ELSE DirAt(dir.subdirs[path[1]], Tail(path))

\* The directories of the tree that hold a candidate directly.
MatchPaths(dir, script_names) ==
    {p \in DirPaths(dir) :
        \E k \in 1..Len(script_names) : script_names[k] \in DirAt(dir, p).files}

\* Directory p comes before directory q in a depth-first search that looks at
\* a directory before its subdirectories and takes these in listing order.
SearchedBefore(p, q) ==
    \/ Len(p) < Len(q) /\ SubSeq(q, 1, Len(p)) = p
    \/ \E i \in 1..Len(p) :
          /\ i <= Len(q)
          /\ SubSeq(p, 1, i - 1) = SubSeq(q, 1, i - 1)
          /\ p[i] < q[i]

\* find_script_in_dir has returned.
FindDone == exec.fn = "find_script_in_dir" /\ exec.pc = "done"

\* C29: find_script_in_dir returns the first candidate, in list order, that
\* exists directly in the directory; only when there is none, the first match
\* of a depth-first search of the subdirectories; and the not-found error
\* exactly when no candidate exists anywhere in the tree.
C29_DirectMatchWins ==
    FindDone =>
        /\ exec.result.found <=> MatchPaths(exec.dir, exec.script_names) # {}
        /\ exec.result.found =>
              /\ exec.result.path \in MatchPaths(exec.dir, exec.script_names)
              /\ \A q \in MatchPaths(exec.dir, exec.script_names) \ {exec.result.path} :
                    SearchedBefore(exec.result.path, q)
              /\ \E k \in 1..Len(exec.script_names) :
                    /\ exec.script_names[k] = exec.result.name
                    /\ exec.result.name \in DirAt(exec.dir, exec.result.path).files
                    /\ \A j \in 1..(k - 1) :
                          exec.script_names[j] \notin
                              DirAt(exec.dir, exec.result.path).files
        /\ (\E k \in 1..Len(exec.script_names) :
                exec.script_names[k] \in exec.dir.files) => exec.result.path = <<>>

\* The directory holds two candidates and a subdirectory holds the one that
\* comes first in the list: the second candidate of the list, in the
\* directory itself, is returned.
C29_Witness ==
    /\ FindDone
    /\ exec.script_names = PlaybookCandidates
    /\ exec.dir.files = {"playbook.yaml", "main.yml"}
    /\ Len(exec.dir.subdirs) = 1
    /\ "playbook.yaml" \in exec.dir.subdirs[1].files
    /\ exec.result = [found |-> TRUE, path |-> <<>>, name |-> "playbook.yaml"]

\* download_and_extract has returned Ok.
ExtractDone ==
    exec.fn = "download_and_extract" /\ exec.pc = "done" /\ exec.result.ok

\* The name of the downloaded file.
DownloadedName == exec.url[Len(exec.url)]

ExtractReturned == exec.fn = "download_and_extract" /\ exec.pc = "done"

\* C31: once the payload is materialized (downloaded and handled), a failure
\* to remove the temporary file or the temporary directory never makes
\* download_and_extract return an error: it returns Ok with the materialized
\* path.
C31_RemovalFailureNotFatal ==
    (/\ ExtractReturned
     /\ exec.env.download /\ exec.env.handling
     /\ FileNameOfUrl(exec.url) # <<>>) =>
        /\ exec.result.ok
        /\ exec.result.returned \in {"dest_path", "extract_dir"}
        /\ exec.result.warnings =
              IF ~exec.env.remove_file THEN <<"remove_file">>
              ELSE IF ~exec.env.remove_dir THEN <<"remove_dir">>
              ELSE <<>>

\* An archive was extracted, the temporary file was removed, the removal of
\* the temporary directory failed, and the call returned Ok.
C31_Witness ==
    /\ ExtractReturned
    /\ exec.result.ok
    /\ exec.result.handlings = <<"extract_zip">>
    /\ exec.env.remove_file /\ ~exec.env.remove_dir
    /\ exec.result.warnings = <<"remove_dir">>

\* C32: with a URL that has no trailing piece to take a file name from, the
\* fetch fails with an invalid-source error before any request is sent and
\* before any file is created.
C32_NoFileNameIsInvalidSource ==
    (ExtractReturned /\ FileNameOfUrl(exec.url) = <<>>) =>
        /\ ~exec.result.ok
        /\ exec.result.fetch.error = "InvalidSource"
        /\ exec.result.fetch.steps = <<>>

\* load_tasks or load_stacks has returned.
LoadDone == exec.fn \in {"load_tasks", "load_stacks"} /\ exec.pc = "done"

RECURSIVE Flatten(_)
\* The entries of the documents, in document order.
Flatten(docs) == IF docs = <<>> THEN <<>> ELSE Head(docs) \o Flatten(Tail(docs))

\* The entry of a task definition is well-formed: it has a name, a url and a
\* known type.
WellFormedTask(e) ==
    e.name # NoField /\ e.url # NoField /\ e.type \in {"bash", "M", "Ansible"}

\* The entry of a stack definition is well-formed: it has a name.
WellFormedStack(e) == e.name # NoField

\* The well-formed entries of the documents given to the loader, in document
\* order.
WellFormedEntries ==
    IF exec.fn = "load_tasks"
    THEN SelectSeq(Flatten(exec.docs), WellFormedTask)
    ELSE SelectSeq(Flatten(exec.docs), WellFormedStack)

\* C33: loading Task or Stack definitions skips every entry that cannot be
\* parsed and returns all well-formed entries of the same and of the other
\* documents, in document order; an unparseable entry never fails the load.
C33_BadEntriesSkipped ==
    LoadDone =>
        /\ exec.result.ok
        /\ Len(exec.result.items) = Len(WellFormedEntries)
        /\ exec.result.names =
              [i \in 1..Len(WellFormedEntries) |-> WellFormedEntries[i].name]
        /\ exec.fn = "load_tasks" =>
              \A i \in 1..Len(exec.result.items) :
                  exec.result.items[i].name = WellFormedEntries[i].name
        /\ exec.fn = "load_stacks" =>
              \A i \in 1..Len(exec.result.items) :
                  exec.result.items[i].task_names = WellFormedEntries[i].tasks

\* Two documents: the first holds an entry without name and then a
\* well-formed one, the second a well-formed one; both well-formed entries
\* were loaded.
C33_Witness ==
    /\ LoadDone
    /\ exec.fn = "load_tasks"
    /\ Len(exec.docs) = 2
    /\ Len(exec.docs[1]) = 2
    /\ exec.docs[1][1].name = NoField
    /\ exec.result.names = <<"A", "B">>

\* The report on screen is that of Stack::install / Stack::uninstall of one
\* stack.
StackInstalled == last.view = "stack" /\ last.op = "install"
StackUninstalled == last.view = "stack" /\ last.op = "uninstall"

\* C34: when Stack::install returns Ok on a Stack with members, the Stack is
\* fully installed and not partially installed afterwards and can no longer
\* be installed; on a Stack without members install returns Ok, the Stack
\* stays not installed and can still be installed.
C34_InstallOkIsFullyInstalled ==
    StackInstalled =>
        LET st == stacks[last.index]
        IN  /\ st.task_names = <<>> => last.result = "Ok"
            /\ last.result = "Ok" =>
                  IF st.task_names # <<>>
                  THEN /\ st.fully_installed
                       /\ ~st.partially_installed
                       /\ ~CanInstall(st)
                       /\ ~StackApplicable("install", st)
                  ELSE /\ ~st.fully_installed
                       /\ ~st.partially_installed
                       /\ CanInstall(st)
                       /\ StackApplicable("install", st)

\* A Stack of two members that was partially installed has been installed
\* with success.
C34_Witness ==
    /\ StackInstalled
    /\ last.result = "Ok"
    /\ Len(stacks[last.index].task_names) = 2
    /\ \E k \in 1..Len(last.calls) : last.calls[k].installed_before
    /\ \E k \in 1..Len(last.calls) : ~last.calls[k].installed_before
    /\ stacks[last.index].fully_installed

\* A Stack without members has been installed.
C34_EmptyInstalled ==
    /\ StackInstalled
    /\ stacks[last.index].task_names = <<>>
    /\ last.result = "Ok"

\* C35 (as claimed): Stack::uninstall returns Ok only if every entry of
\* task_names resolved to a Task that was installed when visited; so the
\* uninstall of a partially installed Stack returns an error, also when every
\* installed member was uninstalled with success, and in that case both
\* derived flags are false afterwards.
C35_PartialUninstallFails ==
    [][(last = Idle /\ StackUninstalled') =>
          /\ last'.result = "Ok" =>
                \A k \in 1..Len(last'.calls) :
                    /\ last'.calls[k].index # 0
                    /\ MarkedInstalled(last'.calls[k].files_before,
                                       last'.calls[k].name)
          /\ stacks[last'.index].partially_installed =>
                /\ last'.result # "Ok"
                /\ (\A k \in 1..Len(last'.calls) :
                       last'.calls[k].index # 0 => ~last'.calls[k].installed_after)
                   => /\ ~stacks'[last'.index].fully_installed
                      /\ ~stacks'[last'.index].partially_installed]_vars

\* The fetch of the payload failed during the call.
FetchFailed(c) == \E j \in 1..Len(c.steps) : IsFetchStep(c.steps[j]) /\ ~c.steps[j][3]

\* C36: Stack::install calls Task::install on every member it finds, whatever
\* the member's installed flag: a member that is installed already is not
\* skipped, its install phase is executed again (unless its payload cannot be
\* materialized), and when the second run fails the member is reported as
\* failed although it stays installed.
C36_InstalledMembersReinstalled ==
    StackInstalled =>
        /\ Len(last.calls) = Len(stacks[last.index].task_names)
        /\ \A k \in 1..Len(last.calls) :
              LET c == last.calls[k]
              IN  /\ c.name = stacks[last.index].task_names[k]
                  /\ (c.index # 0 /\ c.installed_before) =>
                        /\ c.steps # <<>>
                        /\ ~FetchFailed(c) => RunnerSteps(c) # <<>>
                        /\ c.result # "Ok" =>
                              /\ \E j \in 1..Len(last.failed) : last.failed[j] = c.name
                              /\ c.installed_after
                              /\ c.files_after = c.files_before

\* Stack::install has run the install phase of a member that was installed
\* already, the phase failed, and the member is still installed.
C36_Witness ==
    /\ StackInstalled
    /\ \E k \in 1..Len(last.calls) :
          /\ last.calls[k].index # 0
          /\ last.calls[k].installed_before
          /\ last.calls[k].result = "ExecutionError"
          /\ last.calls[k].installed_after
          /\ tasks[last.calls[k].index].installed
          /\ last.result = "StackError"

\* The first half of C35 on its own: Stack::uninstall returns Ok only if every
\* entry resolved to a Task whose state file said installed when visited.
UninstallOkMeansAllInstalled ==
    (StackUninstalled /\ last.result = "Ok") =>
        \A k \in 1..Len(last.calls) :
            /\ last.calls[k].index # 0
            /\ MarkedInstalled(last.calls[k].files_before, last.calls[k].name)

\* The calls of Task::uninstall that failed after the check that the Task is
\* installed: the download, the cleanup command or the uninstall phase failed.
FailedUninstalls ==
    {c \in TaskCalls :
        c.op = "uninstall" /\ c.result \in {"DownloadError", "ExecutionError"}}

\* C37: when Task::uninstall fails after its precondition check, the state
\* file is still there with content 'installed', no state file was changed,
\* and the installed flag of the Task is still true.
C37_FailedUninstallKeepsInstalled ==
    \A c \in FailedUninstalls :
        /\ c.files_after = c.files_before
        /\ MarkedInstalled(c.files_after, c.name)
        /\ c.installed_after
        /\ last.view = "task" =>
              /\ MarkedInstalled(state_files, c.name)
              /\ tasks[c.index].installed

\* An uninstall from the task view failed in its cleanup after the payload
\* was fetched.
C37_Witness ==
    \E c \in FailedUninstalls :
        /\ last.view = "task"
        /\ c.result = "ExecutionError"
        /\ \E j \in 1..Len(c.steps) : IsFetchStep(c.steps[j])
        /\ tasks[c.index].installed

\* An uninstall failed because the payload could not be fetched.
C37_DownloadFailed ==
    \E c \in FailedUninstalls : c.result = "DownloadError" /\ c.installed_after

\* The Tasks that the operation reported by report may touch: the Task under
\* the cursor of the task view, or the Tasks named in task_names of the Stack.
Touched(report, i) ==
    IF report.view = "task"
    THEN i = report.index
    ELSE \E k \in 1..Len(stacks[report.index].task_names) :
            stacks[report.index].task_names[k] = tasks[i].name

\* The operation reported by report left Task i and its state file alone.
TaskLeftAlone(i) ==
    /\ tasks'[i] = tasks[i]
    /\ state_files'[tasks[i].name] = state_files[tasks[i].name]

\* C38 (as claimed): an operation on one Task changes the installed flag, the
\* local_path and the state file of that Task only, and a Stack operation
\* changes only the Tasks named in its task_names and only the flags of that
\* Stack; every other Task, the state file of every other Task and every
\* other Stack are unchanged.
C38_OthersUnchanged ==
    [][(last = Idle /\ last'.view \in {"task", "stack"}) =>
          /\ Len(tasks') = Len(tasks)
          /\ \A i \in 1..Len(tasks) : ~Touched(last', i) => TaskLeftAlone(i)
          /\ \A s \in 1..Len(stacks) :
                (last'.view = "task" \/ s # last'.index) => stacks'[s] = stacks[s]
          /\ last'.view = "stack" =>
                stacks'[last'.index].task_names = stacks[last'.index].task_names]_vars

\* The same frame for collections in which no two Tasks have one name.
OthersUnchangedWhenNamesUnique ==
    [][(last = Idle /\ last'.view \in {"task", "stack"} /\ C23_TaskNamesUnique) =>
          /\ \A i \in 1..Len(tasks) : ~Touched(last', i) => TaskLeftAlone(i)
          /\ \A s \in 1..Len(stacks) :
                (last'.view = "task" \/ s # last'.index) => stacks'[s] = stacks[s]]_vars

\* Every thread is blocked in Mutex::lock on a mutex that another thread
\* holds.
Deadlocked ==
    \A t \in Threads :
        /\ Locking(exec.thread[t])
        /\ \E u \in Threads \ {t} : Wanted(exec.thread[t]) \in Guards(exec.thread[u])

\* Two mutexes that two paths both lock are locked in the same order by both.
SameRelativeOrder(p, q) ==
    \A i, j \in 1..Len(AcquireOrder(p)) :
    \A k, l \in 1..Len(AcquireOrder(q)) :
        (/\ i < j
         /\ AcquireOrder(p)[i] = AcquireOrder(q)[k]
         /\ AcquireOrder(p)[j] = AcquireOrder(q)[l]) => k < l

\* The paths the two threads run lock their common mutexes in one order.
LockOrderConsistent ==
    exec.fn = "locks" =>
        \A t, u \in Threads : SameRelativeOrder(exec.thread[t].path, exec.thread[u].path)

\* C39 (as claimed): the paths that hold more than one of the shared mutexes
\* lock them in the same relative order, so two threads running these paths
\* never block each other for ever.
C39_NoLockDeadlock == exec.fn = "locks" => ~Deadlocked

====
